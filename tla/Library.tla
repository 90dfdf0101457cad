------------------------------- MODULE Library -------------------------------
(***************************************************************************)
(* The kernel's library: the memory and string functions of core/string.c  *)
(* and NumberToString of core/algorithm.c.  A behaviour is one call, with  *)
(* any contents of a small memory and any arguments for which the call     *)
(* stays inside it; history variables keep the memory before the call.     *)
(***************************************************************************)
EXTENDS Integers, Sequences, FiniteSetsExt

CONSTANTS
    Bytes,          \* the values of a byte, numbers; 0 ends a string
    MemSize,
    Numbers         \* what NumberToString is called with

ASSUME LibraryAssumption ==
    /\ 0 \in Bytes /\ Bytes \subseteq 0 .. 255
    /\ MemSize \in Nat \ {0}
    /\ Numbers \subseteq Nat

VARIABLES mem, call, result, before
vars == <<mem, call, result, before>>

Addresses == 0 .. MemSize - 1
RunsOn == -1

Init ==
    /\ mem \in [Addresses -> Bytes]
    /\ call = [name |-> "none"]
    /\ result = 0
    /\ before = mem

-----------------------------------------------------------------------------
(* What the loops do.                                                      *)

\* A slip the runs must notice: the bytes are copied from the last one down.
Copied_Down(dest, src, len) ==
    LET m[n \in 0 .. len] ==
          IF n = 0 THEN mem
          ELSE [m[n - 1] EXCEPT ![dest + len - n] = m[n - 1][src + len - n]]
    IN  m[len]

\* The bytes are copied one by one, the first one first.
Copied(dest, src, len) ==
    LET m[n \in 0 .. len] ==
          IF n = 0 THEN mem
          ELSE [m[n - 1] EXCEPT ![dest + n - 1] = m[n - 1][src + n - 1]]
    IN  m[len]

IsString(m, a) == \E i \in Addresses : i >= a /\ m[i] = 0
LengthOf(m, a) == Min({i \in Addresses : i >= a /\ m[i] = 0}) - a
StringAt(m, a) == [i \in 0 .. LengthOf(m, a) |-> m[a + i]]

\* The do loops look for the end of src only behind its first byte.
Ends(m, src) == {n \in 1 .. MemSize : src + n \in Addresses /\ m[src + n] = 0}

\* The loop of strcmp stops at the first difference or end of a string.
StopsAt(a, b) ==
    Min({i \in 0 .. MemSize : {a + i, b + i} \subseteq Addresses /\ (mem[a + i] # mem[b + i] \/ mem[a + i] = 0)})

\* A slip the runs must notice: a string and a longer one that it begins.
Compared_Shorter(a, b) ==
    IF mem[a + StopsAt(a, b)] # 0 /\ mem[b + StopsAt(a, b)] # 0 THEN 1 ELSE 0

\* failed
Compared(a, b) == IF mem[a + StopsAt(a, b)] # mem[b + StopsAt(a, b)] THEN 1 ELSE 0

\* The digits, stored from the last one on; n is divided by 10 in every base.
Digits(n, base) ==
    LET d[k \in 0 .. n] == IF k = 0 THEN << >> ELSE Append(d[k \div 10], k % base)
    IN  IF n = 0 THEN <<0>> ELSE d[n]

-----------------------------------------------------------------------------
(* The functions.                                                          *)

Called(c) ==
    /\ call.name = "none"
    /\ call' = c
    /\ UNCHANGED before

memcpy(dest, src, len) ==
    /\ dest + len <= MemSize /\ src + len <= MemSize
    /\ Called([name |-> "memcpy", dest |-> dest, src |-> src, len |-> len])
    /\ mem' = Copied(dest, src, len)
    /\ UNCHANGED result

memset(dest, val, len) ==
    /\ dest + len <= MemSize
    /\ Called([name |-> "memset", dest |-> dest, val |-> val, len |-> len])
    /\ mem' = [i \in Addresses |-> IF i \in dest .. dest + len - 1 THEN val ELSE mem[i]]
    /\ UNCHANGED result

strcmp(a, b) ==
    /\ IsString(mem, a) /\ IsString(mem, b)
    /\ Called([name |-> "strcmp", str1 |-> a, str2 |-> b])
    /\ result' = Compared(a, b)
    /\ UNCHANGED mem

Apart(dest, src, len) == dest + len <= src \/ src + len < dest

\* There is no return statement: what the caller finds in the register of the
\* result is the byte that ended the loop.
strcpy(dest, src) ==
    /\ Ends(mem, src) # {}
    /\ LET len == Min(Ends(mem, src))
       IN  /\ dest + len <= MemSize
           /\ Apart(dest, src, len)
           /\ mem' = Copied(dest, src, len)
    /\ Called([name |-> "strcpy", dest |-> dest, src |-> src])
    /\ result' = 0

\* The loop that looks for the end of dest says *dest = *dest++.  It is for the
\* compiler to choose which byte that stores to: the one just read, or the
\* next; then the end of dest is written over before it is found, and so is all
\* that lies behind it.
strcat(dest, src) ==
    /\ IsString(mem, dest) /\ Ends(mem, src) # {}
    /\ LET len == Min(Ends(mem, src))
           end == dest + LengthOf(mem, dest)
       IN  /\ end + len <= MemSize
           /\ Apart(dest, src, end - dest + len)
           /\ \/ mem' = Copied(end, src, len) /\ result' = end + len
              \/ /\ end # dest
                 /\ mem' = [i \in Addresses |-> IF i >= dest THEN mem[dest] ELSE mem[i]]
                 /\ result' = RunsOn
    /\ Called([name |-> "strcat", dest |-> dest, src |-> src])

NumberToString(n, base) ==
    /\ Called([name |-> "NumberToString", n |-> n, base |-> base])
    /\ result' = Digits(n, base)
    /\ UNCHANGED mem

Next ==
    \/ \E dest, src \in Addresses :
          \/ \E len \in 0 .. MemSize : memcpy(dest, src, len)
          \/ strcmp(dest, src) \/ strcpy(dest, src) \/ strcat(dest, src)
    \/ \E dest \in Addresses, val \in Bytes, len \in 0 .. MemSize : memset(dest, val, len)
    \/ \E n \in Numbers, base \in {10, 16} : NumberToString(n, base)

Spec == Init /\ [][Next]_vars

-----------------------------------------------------------------------------
(* Properties.                                                             *)

\* What a call is to copy, where from and where to.  A string is to be copied
\* with the byte that ends it; the loops leave that one out, unless the string
\* is empty, so "open" is where it may be missing.  "lost" is what the call is
\* known to spoil: what follows the end of an empty string is copied too.
CopyOfString(dest, src) ==
    LET len  == LengthOf(before, src)
        next == Min(Ends(before, src))
    IN  [to |-> dest, from |-> src, len |-> IF len = 0 THEN 1 ELSE len,
         open |-> IF len = 0 THEN {} ELSE {dest + len},
         lost |-> IF len = 0 THEN dest + 1 .. dest + next - 1 ELSE {}]

Copies ==
    CASE call.name = "memcpy" /\ call.dest <= call.src ->
            {[to |-> call.dest, from |-> call.src, len |-> call.len,
              open |-> {}, lost |-> {}]}
      [] call.name = "strcpy" -> {CopyOfString(call.dest, call.src)}
      [] call.name = "strcat" /\ result # RunsOn ->
            {CopyOfString(call.dest + LengthOf(before, call.dest), call.src)}
      [] call.name = "strcat" /\ result = RunsOn ->
            {[to |-> call.dest, from |-> call.dest, len |-> 1, open |-> {},
              lost |-> {i \in Addresses : i > call.dest}]}
      [] OTHER -> {}

\* memcpy may move memory down onto itself, as ScrollScreen does; it, strcpy and
\* strcat copy every byte they should and change no other.  The byte that ends a
\* string may arrive with it or not.  Not claimed: what follows an empty string
\* that is copied, and all behind dest once strcat has run on.
CopiesExactly ==
    \A c \in Copies : \A i \in Addresses \ c.lost :
        \/ /\ i \in c.to .. c.to + c.len - 1
           /\ mem[i] = before[i - c.to + c.from]
        \/ /\ i \notin c.to .. c.to + c.len - 1
           /\ mem[i] = before[i] \/ (i \in c.open /\ mem[i] = 0)

DigitsMake(n) ==
    /\ result # << >>
    /\ LET v[i \in 0 .. Len(result)] == IF i = 0 THEN 0 ELSE 10 * v[i - 1] + result[i]
       IN  v[Len(result)] = n
    /\ n # 0 => result[1] # 0

\* strcmp tells equal strings from others, also where one begins the other; the
\* digits of NumberToString have the value of the number, without a leading
\* zero, in base 10, which is the only one it is used with.
ResultIsRight ==
    /\ call.name = "strcmp" =>
          ((result = 0) <=> (StringAt(mem, call.str1) = StringAt(mem, call.str2)))
    /\ (call.name = "NumberToString" /\ call.base = 10) => DigitsMake(call.n)

=============================================================================
