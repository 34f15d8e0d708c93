------------------------------- MODULE Format -------------------------------
(***************************************************************************)
(* The number conversions of boot/kernel/print.c:84-145.  A uint64_t is a  *)
(* number below M, of at most D decimal digits (20), that is               *)
(* 10^(D-1) < M <= 10^D; a result is the sequence of its characters.       *)
(***************************************************************************)
EXTENDS Integers, Sequences, FiniteSets

CONSTANTS M,     \* 2^64
          D,     \* 20
          HEXD   \* 16, the digits hex() writes

(* The powers of a base. *)
power(base) == LET p[n \in Nat] == IF n = 0 THEN 1 ELSE p[n - 1] * base IN p

(* What the constants must satisfy; 10^20 mod 2^64 is less than 10^19. *)
FormatConstants ==
  /\ {M, D, HEXD} \subseteq Nat \ {0}
  /\ power(10)[D - 1] < M /\ M <= power(10)[D] /\ M <= power(16)[HEXD]
  /\ power(10)[D] % M < power(10)[D - 1] /\ power(10)[D] % M # 0

(* print.c:84-94 *)
pow(a, b) ==
  LET temp[n \in Nat] == IF n = 0 THEN 1 ELSE IF n = 1 THEN a ELSE (temp[n - 1] * a) % M
  IN  temp[b]

itoa_short(num) ==
  LET k == (IF num >= pow(10, D - 1) THEN 0 ELSE 1) + Cardinality({e \in 0 .. (D - 2) : num <= pow(10, e)})
  IN  IF k >= D THEN <<48>>
      ELSE [i \in 1 .. (D - k) |->
             LET j == pow(10, D - i - k) IN ((num % ((j * 10) % M)) \div j) + 48]

(* print.c:95-117: k leading zeros are skipped; the digit of weight j is   *)
(* num % (j * 10) / j, where j * 10 wraps for the first of D digits.       *)
itoa(num) ==
  LET k == (IF num >= pow(10, D - 1) THEN 0 ELSE 1) + Cardinality({e \in 0 .. (D - 2) : num < pow(10, e)})
  IN  IF k = D THEN <<48>>
      ELSE [i \in 1 .. (D - k) |->
             LET j == pow(10, D - i - k) IN ((num % ((j * 10) % M)) \div j) + 48]

(* "0123456789ABCDEF" (print.c:120, 134). *)
digits(byte) == IF byte < 10 THEN byte + 48 ELSE byte + 55

(* print.c:118-131 and 132-145, of HEXD and of 2 digits. *)
hex(num)     == [i \in 1 .. HEXD |-> digits((num \div power(16)[HEXD - i]) % 16)]
hexbyte(num) == [i \in 1 .. 2 |-> digits((num \div power(16)[2 - i]) % 16)]

-----------------------------------------------------------------------------
(* The number a sequence of characters denotes, read from the left. *)
Value(s, base, DigitOf(_)) ==
  LET v[i \in 0 .. Len(s)] == IF i = 0 THEN 0 ELSE v[i - 1] * base + DigitOf(s[i])
  IN  v[Len(s)]
Decimal(c)     == c - 48
Hexadecimal(c) == IF c \in 48 .. 57 THEN c - 48 ELSE IF c \in 65 .. 70 THEN c - 55 ELSE -1000

(* itoa writes a number below 10^(D-1) in decimal, with no leading zero.   *)
(* Of a number of D digits it writes D characters, and those after the     *)
(* first are right; the first, which print.c:101 computes and print.c:113  *)
(* overwrites, is not claimed to be.                                       *)
ItoaRight(num) ==
  LET s == itoa(num) IN
    IF num < power(10)[D - 1]
    THEN Value(s, 10, Decimal) = num /\ (Len(s) > 1 => s[1] # 48)
    ELSE Len(s) = D /\ Value([s EXCEPT ![1] = 48], 10, Decimal) = num % power(10)[D - 1]

(* hex and hexbyte write every number they can hold, padded with zeros. *)
HexExact(num) ==
  /\ Value(hex(num), 16, Hexadecimal) = num /\ Len(hex(num)) = HEXD
  /\ Value(hexbyte(num % 256), 16, Hexadecimal) = num % 256
=============================================================================
