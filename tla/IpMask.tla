------------------------------- MODULE IpMask -------------------------------
(***************************************************************************)
(* Utils/IpMask: a list of allowed and prohibited address masks, parsed    *)
(* once and then asked whether it lets an address in.  A byte is the set   *)
(* of its bits, so that the bit operations of the code are those of sets,  *)
(* and an address has Bytes bytes.  Any other text between two dots is a   *)
(* set too, one with Star in it when its first character is a star.  A     *)
(* step is a line of the mask parsed.                                      *)
(***************************************************************************)
EXTENDS Integers, FiniteSets, SequencesExt

CONSTANTS
  Bytes,    \* BYTES_COUNT
  Bits,     \* of a byte, without Star
  Loopback, \* the byte 127
  Masks     \* masks: sequences of [prohibited : BOOLEAN, fields : sequence]

VARIABLES
  mask,       \* _maskValue, split into lines and fields: bytes and other texts
  line,       \* index of the next line, 0 when a line was wrong, Len(mask) + 2 at the end
  prohibited, \* _prohibitedMask
  allowed,    \* _allowedMask
  parsed      \* _maskParsed

maskVars == <<mask, line, prohibited, allowed, parsed>>

Invalid == <<>>
Star == "*"
ByteValues == SUBSET Bits

(* strToBin(): the bytes and which of them are wild, or Invalid.  Neither  *)
(* what follows a star nor the text behind the last byte is looked at.     *)
StrToBin(fields, useMatch) ==
  LET read    == IF Len(fields) < Bytes THEN Len(fields) ELSE Bytes
      Wild(i) == i > read \/ (useMatch /\ Star \in fields[i])
  IN IF /\ \A i \in 1 .. read : fields[i] \in ByteValues \/ Wild(i)
        /\ read = Bytes \/ (read > 0 /\ Wild(read))
     THEN [i \in 1 .. Bytes |-> [wild |-> Wild(i), bits |-> IF Wild(i) THEN Bits ELSE fields[i]]]
     ELSE Invalid

Init ==
  /\ mask \in Masks
  /\ line = 1 /\ prohibited = <<>> /\ allowed = <<>> /\ parsed = FALSE

ParseLine ==
  /\ line \in DOMAIN mask
  /\ LET address == StrToBin(mask[line].fields, TRUE)
     IN IF Len(mask[line].fields) > Bytes \/ address = Invalid
        THEN line' = 0 /\ UNCHANGED <<prohibited, allowed>>
        ELSE /\ line' = line + 1
             /\ IF mask[line].prohibited
                THEN prohibited' = Append(prohibited, address) /\ UNCHANGED allowed
                ELSE allowed' = Append(allowed, address) /\ UNCHANGED prohibited
  /\ UNCHANGED <<mask, parsed>>

Home == [i \in 1 .. Bytes |-> [wild |-> i > 1, bits |-> IF i > 1 THEN Bits ELSE Loopback]]

(* What follows the lines: the mask of this machine, if no other is there, *)
(* and no mask at all if every address is prohibited.                      *)
ParseEnd ==
  /\ line = Len(mask) + 1
  /\ line' = line + 1
  /\ allowed' = IF allowed = <<>> THEN <<Home>> ELSE allowed
  /\ parsed' = ~\E i \in DOMAIN prohibited : \A j \in 1 .. Bytes : prohibited[i][j].wild
  /\ UNCHANGED <<mask, prohibited>>

Next == ParseLine \/ ParseEnd

(* Mutant of Listed: the bits of the mask are not looked for in the address. *)
ListedCovered(address, listed) == \A i \in 1 .. Bytes : address[i].bits \subseteq listed[i].bits

(* An address is in a list's mask: its bits are among those of the mask    *)
(* and the mask's among those of each byte that is not wild.               *)
Listed(address, listed) ==
  /\ \A i \in 1 .. Bytes : address[i].bits \cap listed[i].bits = address[i].bits
  /\ \A i \in 1 .. Bytes :
       address[i].bits \cup listed[i].bits = address[i].bits \/ listed[i].wild

CheckIpAddress(fields) ==
  LET address == StrToBin(fields, FALSE)
  IN /\ parsed
     /\ address # Invalid
     /\ ~\E i \in DOMAIN prohibited : Listed(address, prohibited[i])
     /\ \E i \in DOMAIN allowed : Listed(address, allowed[i])

Spec == Init /\ [][Next]_maskVars

---------------------------------------------------------------------------

(* A line as it is written: a field that begins with a star stands for     *)
(* every byte, the last field for all that follow, too.                    *)
Means(fields, address) ==
  \A i \in DOMAIN fields : Star \in fields[i] \/ fields[i] = address[i]

WellFormed(fields) ==
  /\ Len(fields) \in 1 .. Bytes
  /\ \A i \in DOMAIN fields : Star \in fields[i] \/ fields[i] \in ByteValues
  /\ Len(fields) = Bytes \/ Star \in Last(fields)

(* The mask lets in an address that one of its lines allows (without such  *)
(* lines, one of this machine) and none prohibits, whatever the order of   *)
(* the lines; a mask with a wrong line lets nobody in.                     *)
DecidesAsWritten ==
  LET Lines(kind) == {i \in DOMAIN mask : mask[i].prohibited = kind}
      wrong == \E i \in DOMAIN mask : ~WellFormed(mask[i].fields)
      LetsIn(address) ==
        /\ ~\E i \in Lines(TRUE) : Means(mask[i].fields, address)
        /\ IF Lines(FALSE) = {} THEN address[1] = Loopback
           ELSE \E i \in Lines(FALSE) : Means(mask[i].fields, address)
  IN line \in {0, Len(mask) + 2} =>
       \A address \in [1 .. Bytes -> ByteValues] :
         CheckIpAddress(address) <=> ~wrong /\ LetsIn(address)
=============================================================================
