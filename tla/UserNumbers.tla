---------------------------- MODULE UserNumbers ----------------------------
(***************************************************************************)
(* The numbers Generate prints (common/system/rand.go): flag, disguised    *)
(* day, the sequence number nextSeq has drawn, three random digits and a   *)
(* Luhn digit.  A string of digits is a sequence of 0..9.  The secret is   *)
(* known by the bytes of its two HMACs.                                    *)
(***************************************************************************)
EXTENDS SeqGenerator, Integers, FiniteSets

CONSTANTS
  Secret,  \* [seed, rot] : the bytes for the shuffle and the one for the rotation
  Random   \* what rand3 may return

Digit == 0..9

ASSUME NumbersAssumption ==
  /\ Key \subseteq [flag : Digit, day : [1..6 -> Digit]]
  /\ Secret \subseteq [seed : [1..9 -> 0..255], rot : 0..255]
  /\ Random \subseteq [1..3 -> Digit]
  /\ Capacity <= 10000

----------------------------------------------------------------------------
SwappedOver(p, i, j) == [p EXCEPT ![i] = p[j]]  \* mutant: one assignment is lost

\* perm[i], perm[j] = perm[j], perm[i]
Swapped(p, i, j) == [p EXCEPT ![i] = p[j], ![j] = p[i]]

\* buildDigitPerm: for i from 9 down to 1, a swap with a place up to i.
DigitPerm(s) ==
  LET after[i \in 1..10] ==
        IF i = 10 THEN [d \in Digit |-> d]
        ELSE Swapped(after[i + 1], i, s.seed[10 - i] % (i + 1))
  IN after[1]

\* obfuscateYYMMDD: every digit replaced, the last Rot of them put in front.
Obfuscated(day, s) ==
  LET perm == DigitPerm(s)
      rot == s.rot % 6
  IN [i \in 1..6 |-> perm[day[((i - 1 - rot + 6) % 6) + 1]]]

\* %04d
FourDigits(n) == <<n \div 1000, (n \div 100) % 10, (n \div 10) % 10, n % 10>>

Doubled(d) == IF 2 * d > 9 THEN 2 * d - 9 ELSE 2 * d

\* luhnDigit: every second digit is doubled, the last one first.
LuhnDigit(num) ==
  LET weighted == [i \in DOMAIN num |->
                     IF (Len(num) - i) % 2 = 0 THEN Doubled(num[i]) ELSE num[i]]
        sum[i \in 0..Len(num)] == IF i = 0 THEN 0 ELSE sum[i - 1] + weighted[i]
  IN (10 - (sum[Len(num)] % 10)) % 10

Body(k, n, random, s) == <<k.flag>> \o Obfuscated(k.day, s) \o FourDigits(n) \o random

\* Generate, for the number n drawn by nextSeq.
Printed(k, n, random, s) ==
  LET body == Body(k, n, random, s) IN Append(body, LuhnDigit(body))

----------------------------------------------------------------------------
Issued == {e \in Key \X (1..Capacity) : e[2] <= Len(issued[e[1]])}

Number(e, random, s) == Printed(e[1], issued[e[1]][e[2]], random, s)

Differences(a, b) == {i \in DOMAIN a : a[i] # b[i]}

\* Two calls of Generate that return never return the same number, nor
\* numbers so alike that a wrong digit turns one into the other, whatever the
\* day, flag, secret and random digits: the shuffle of digits and the rotation
\* lose nothing, and the Luhn digit tells (rand.go:180).
PrintedApart ==
  \A s \in Secret, d, e \in Issued, x, y \in Random :
    d # e => Cardinality(Differences(Number(d, x, s), Number(e, y, s))) >= 2
=============================================================================
