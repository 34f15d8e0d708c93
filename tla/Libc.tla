-------------------------------- MODULE Libc --------------------------------
(***************************************************************************)
(* The C library subset of sys/: the character classes of ctype.c as       *)
(* operators on the code of a character, and strncmp of string.c as the    *)
(* loop it is, reading two strings byte by byte.                           *)
(***************************************************************************)
EXTENDS Integers, Sequences, FiniteSets, FiniteSetsExt

CONSTANTS Bytes,   \* values of a char in the strings compared
          MaxLen   \* bound: bytes of a string before its NUL

(* What the constants must satisfy. *)
LibcConstants == Bytes \subseteq (-128 .. 127) \ {0} /\ MaxLen \in Nat

(* ctype.c:4-41 *)
isdigit(c)  == c \in 48 .. 57
isupper(c)  == c \in 65 .. 90
islower(c)  == c \in 97 .. 122
isalpha(c)  == c \in 65 .. 90 \/ c \in 97 .. 122
isalnum(c)  == c \in 48 .. 57 \/ c \in 65 .. 90 \/ c \in 97 .. 122
isascii(c)  == c \in 0 .. 127
isblank(c)  == c \in {9, 32}
iscntrl(c)  == c \in 0 .. 31 \/ c = 127
isgraph(c)  == c \in 33 .. 126
isprint(c)  == c \in 32 .. 126
ispunct(c)  == c \in 33 .. 47 \/ c \in 58 .. 64 \/ c \in 91 .. 96 \/ c \in 123 .. 126
isspace(c)  == c \in {9, 10, 11, 12, 13, 32}
isxdigit(c) == c \in 48 .. 57 \/ c \in 65 .. 70 \/ c \in 97 .. 102
toascii(c)  == c % 128

(* ctype.c:46-57 with the macros of ctype.h. *)
toupper(c) == IF islower(c) THEN c - 32 ELSE 0
tolower(c) == IF isupper(c) THEN c + 32 ELSE 0

-----------------------------------------------------------------------------
VARIABLES
  c,        \* the argument of the character functions
  s1, s2,   \* two strings, NUL included, with whatever follows the NUL
  n, i,     \* strncmp's limit and loop variable
  ret,      \* what strncmp returned, as a sequence
  past      \* history: a byte after a string's NUL was read

vars == <<c, s1, s2, n, i, ret, past>>

NulAt(s) == Min({k \in DOMAIN s : s[k] = 0})

(* Strings with their NUL at any place, and any byte behind it. *)
Strings ==
  {s \in [1 .. (MaxLen + 1) -> Bytes \cup {0}] : \E k \in DOMAIN s : s[k] = 0}

Init ==
  /\ c \in -1 .. 255
  /\ s1 = << >> /\ s2 = << >> /\ n = 0 /\ i = 0 /\ ret = << >> /\ past = FALSE

(* strncmp is called (string.c:18). *)
Strncmp(a, b, cnt) ==
  /\ s1 = << >> /\ c = -1
  /\ s1' = a /\ s2' = b /\ n' = cnt /\ i' = 0 /\ ret' = << >>
  /\ UNCHANGED <<c, past>>

Active == s1 # << >> /\ ret = << >>

(* One test of strncmp's loop and its body (string.c:19-25).  A char is    *)
(* signed; the bytes are s1[i + 1] and s2[i + 1] here.                     *)
Compare ==
  /\ Active
  /\ LET p == s1[i + 1]
         q == s2[i + 1]
     IN  \/ i < n /\ ~ (p = 0 /\ q = 0) /\ p = q /\ i' = i + 1 /\ ret' = ret
         \/ i < n /\ p > q /\ i' = i /\ ret' = <<1>>
         \/ i < n /\ p < q /\ i' = i /\ ret' = <<-1>>
         \/ (i >= n \/ (p = 0 /\ q = 0)) /\ i' = i /\ ret' = <<0>>
  /\ past' = (past \/ (i < n /\ (i + 1 > NulAt(s1) \/ i + 1 > NulAt(s2))))
  /\ UNCHANGED <<c, s1, s2, n>>

Returned == ~ Active /\ UNCHANGED vars

Next == (\E a, b \in Strings, cnt \in 0 .. MaxLen : Strncmp(a, b, cnt)) \/ Compare \/ Returned
Spec == Init /\ [][Next]_vars

-----------------------------------------------------------------------------
(* The classes fit together for EOF and every unsigned char: alphanumerics *)
(* are letters and digits, letters are upper or lower and never both,      *)
(* graphic characters are alphanumeric or punctuation and never both, and  *)
(* what is ASCII and not printable is a control character (ctype.c:4-41).  *)
ClassesAgree ==
  /\ isalnum(c) <=> isalpha(c) \/ isdigit(c)
  /\ isalpha(c) <=> isupper(c) \/ islower(c)
  /\ ~ (isupper(c) /\ islower(c)) /\ ~ (isalpha(c) /\ isdigit(c))
  /\ isgraph(c) <=> isalnum(c) \/ ispunct(c)
  /\ ~ (isalnum(c) /\ ispunct(c))
  /\ isprint(c) <=> isgraph(c) \/ c = 32
  /\ iscntrl(c) <=> isascii(c) /\ ~ isprint(c)
  /\ isxdigit(c) => isalnum(c)
  /\ (isblank(c) => isspace(c)) /\ (isspace(c) => iscntrl(c) \/ c = 32)
  /\ isascii(toascii(c)) /\ (isascii(c) => toascii(c) = c)

(* Changing the case of a letter there and back gives the letter, and      *)
(* changes its class (ctype.c:46-57).                                      *)
CaseRoundTrip ==
  /\ isupper(c) => islower(tolower(c)) /\ toupper(tolower(c)) = c
  /\ islower(c) => isupper(toupper(c)) /\ tolower(toupper(c)) = c

(* strncmp reads no byte behind the NUL of either string, so that it may   *)
(* be given buffers that end there (string.c:19).                          *)
NothingPastNul == ~ past

(* The prefixes that count, and the first place where they differ. *)
Prefix(s) == {k \in 1 .. n : k <= NulAt(s)}
Differ    == {k \in Prefix(s1) \cap Prefix(s2) : s1[k] # s2[k]}

(* What POSIX.1-2024 (info:10) asks of strncmp: 0 exactly for strings that *)
(* agree in their first n bytes, and otherwise the order of the first      *)
(* bytes that differ, as unsigned chars.  The order is only claimed for    *)
(* two bytes below 0x80 or two above: string.c:21 compares them signed.    *)
Unsigned(byte) == byte % 256

StrncmpOrder ==
  s1 # << >> /\ ret # << >> =>
    /\ ret = <<0>> <=> Differ = {}
    /\ Differ # {} =>
         LET a == s1[Min(Differ)]
             b == s2[Min(Differ)]
         IN  (Unsigned(a) < 128 <=> Unsigned(b) < 128) => (ret[1] > 0 <=> Unsigned(a) > Unsigned(b))

(* The inductive invariant: what the loop has passed is equal and no NUL,  *)
(* so it has come to neither string's end (string.c:19), and the result is *)
(* the order of signed chars (string.c:21-22).                             *)
SignedOrder ==
  s1 # << >> /\ ret # << >> =>
    IF Differ = {} THEN ret = <<0>>
    ELSE ret = IF s1[Min(Differ)] > s2[Min(Differ)] THEN <<1>> ELSE <<-1>>

Compared ==
  s1 # << >> =>
    /\ s1 \in Strings /\ s2 \in Strings /\ n \in 0 .. MaxLen /\ i \in 0 .. n
    /\ \A k \in 1 .. i : s1[k] = s2[k] /\ s1[k] # 0

IInv == c \in -1 .. 255 /\ past = FALSE /\ Compared /\ SignedOrder
=============================================================================
