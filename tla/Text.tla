-------------------------------- MODULE Text --------------------------------
(***************************************************************************)
(* C strings as the HTTP and URL parsers use them.  A text is a sequence   *)
(* of characters; a word that no parser looks into is one character or     *)
(* two, so that it can be cut.  Offsets count from 0 as in the code:       *)
(* offset Len(s) is the closing NUL, everything behind it out of bounds.   *)
(***************************************************************************)
EXTENDS Integers, Sequences

CR == "\r"
LF == "\n"
CRLF == <<CR, LF>>
Space == <<" ">>

(* The texts without any of the characters C. *)
Words(C) == {s \in Seq(STRING) : \A i \in 1..Len(s) : s[i] \notin C}

(* A null pointer to a text; "NULL" is no character. *)
NULL == <<"NULL">>

(* strcspn(&s[i], C): how many characters from i on are not in C. *)
strcspn(s, i, C) ==
  CHOOSE n \in 0..(Len(s) - i) :
    /\ \A j \in (i + 1)..(i + n) : s[j] \notin C
    /\ i + n < Len(s) => s[i + n + 1] \in C

(* str_dup(&s[i], n), n at most what is left of s. *)
str_dup(s, i, n) == SubSeq(s, i + 1, i + n)

InBounds(s, i) == i <= Len(s)

----------------------------------------------------------------------------
(* Numbers as decimal text. *)
Digits == <<"0", "1", "2", "3", "4", "5", "6", "7", "8", "9">>

DigitValue == [d \in {Digits[i] : i \in 1..10} |-> CHOOSE v \in 0..9 : Digits[v + 1] = d]

(* atoi: the value of the leading digits, 0 without any. *)
atoi(s) ==
  LET n == CHOOSE n \in 0..Len(s) :
             /\ \A i \in 1..n : s[i] \in DOMAIN DigitValue
             /\ n < Len(s) => s[n + 1] \notin DOMAIN DigitValue
      value[i \in 0..n] == IF i = 0 THEN 0 ELSE 10 * value[i - 1] + DigitValue[s[i]]
  IN value[n]

(* to_str, and %d. *)
decimal[n \in Nat] ==
  IF n < 10 THEN <<Digits[n + 1]>> ELSE Append(decimal[n \div 10], Digits[(n % 10) + 1])

to_str(n) == decimal[n]
=============================================================================
