----------------------------- MODULE EepromPage -----------------------------
(***************************************************************************)
(* A page of the EEPROM, byte by byte: how the logger lays out a setting   *)
(* (storeData), how it reads it back (fetchData), and a page whose writing *)
(* stops half way because the power fails or the transaction is cut short. *)
(* Module SettingsStore assumes that such a page holds the old value, the  *)
(* new one or none at all; this module says when that is so.               *)
(***************************************************************************)
EXTENDS Checksums, Integers

CONSTANTS
  Numbers,  \* the values of a setting
  Bad       \* a page does not verify

VARIABLES
  page,     \* the bytes of the page, as far as a setting reaches
  old, new, \* the number stored before, and the one being stored
  written   \* bytes of the new one that have been programmed

vars == <<page, old, new, written>>

PageBytes == 10

-----------------------------------------------------------------------------
Digits[n \in Nat] ==
  IF n < 10 THEN << 48 + n >> ELSE Append(Digits[n \div 10], 48 + (n % 10))

(* createCredentialArray: a one, the length of the whole, the string and   *)
(* its terminator                                                          *)
CredentialArray(digits) == << 1, Len(digits) + 5 >> \o digits \o << 0 >>

(* appendCrcToBase8Array                                                   *)
WithCrc(arr) == arr \o << Crc16(arr) \div 256, Crc16(arr) % 256 >>

Stored(n) == WithCrc(CredentialArray(Digits[n]))

\* mutant: the checksum is not verified
VerifiesAll(p) == TRUE

(* verifyDataIntegrity; a length past the page is left out.                *)
Verifies(p) == p[2] \in 1..PageBytes /\ Crc16(SubSeq(p, 1, p[2])) = 0

IsDigit(b) == b \in 48..57

\* the digits up to the first byte that is none
DigitsFrom(p, i) ==
  LET end == CHOOSE e \in i..Len(p) + 1 :
               /\ e > Len(p) \/ ~IsDigit(p[e])
               /\ \A k \in i..(e - 1) : IsDigit(p[k])
  IN  SubSeq(p, i, end - 1)

(* fetchData: memcpy and stoi                                              *)
Fetched(p) ==
  IF Verifies(p)
  THEN FoldLeft(LAMBDA n, b : (10 * n) + (b - 48), 0, DigitsFrom(p, 3))
  ELSE Bad

-----------------------------------------------------------------------------
Overwrite(p, bytes) ==
  [i \in 1..PageBytes |-> IF i <= Len(bytes) THEN bytes[i] ELSE p[i]]

Init ==
  /\ old \in Numbers /\ new = old
  /\ page = Overwrite([i \in 1..PageBytes |-> 255], Stored(old))
  /\ written = Len(Stored(new))

(* write_page: the EEPROM begins to program a page...                      *)
Begin(n) ==
  /\ written = Len(Stored(new))
  /\ old' = new /\ new' = n
  /\ written' = 0
  /\ UNCHANGED page

(* ... and programs one byte after the other.  The power may fail after    *)
(* each, so every state is one that a boot may find.                       *)
Program ==
  /\ written < Len(Stored(new))
  /\ written' = written + 1
  /\ page' = [page EXCEPT ![written + 1] = Stored(new)[written + 1]]
  /\ UNCHANGED <<old, new>>

Next == Program \/ \E n \in Numbers : Begin(n)

Spec == Init /\ [][Next]_vars

-----------------------------------------------------------------------------
(* Every variable has its type, and a stored number leaves room in a page. *)
TypeOK ==
  /\ page \in [1..PageBytes -> 0..255]
  /\ old \in Numbers /\ new \in Numbers
  /\ written \in 0..Len(Stored(new)) /\ Len(Stored(new)) <= PageBytes

(* A number that has been stored is read back.  Wherever the writing of a  *)
(* number over another one of as many digits stops, a boot finds the       *)
(* number before it or the one that was being stored, or a page that does  *)
(* not verify: the bytes that differ are too close to each other for the   *)
(* checksum to miss them.  Of numbers of different lengths it may miss a   *)
(* few (840 over 1666, stopped after four bytes, is read back as 8466).    *)
NoThirdNumber ==
  /\ written = Len(Stored(new)) => Fetched(page) = new
  /\ Len(Digits[old]) = Len(Digits[new]) => Fetched(page) \in {old, new, Bad}

(* crc16 is the CCITT polynomial's remainder, of every page that occurs.   *)
Crc16IsCcitt == Crc16(page) = CcittReference(page)
=============================================================================
