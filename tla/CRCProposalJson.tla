--------------------------- MODULE CRCProposalJson ---------------------------
(***************************************************************************)
(* CRCProposal::ToJson and CRCProposal::FromJson                          *)
(* (src/SDK/Plugin/Transaction/Payload/CRCProposal.cpp): the proposal as  *)
(* a JSON object, a record whose domain is its keys; a JSON array is a    *)
(* sequence and a JSON string a sequence of ASCII codes.  Byte strings   *)
(* go through hex (the _hexc/_hexu digits of src/Core/BRInt.h), uint256   *)
(* and uint168 through their reversed hex, budgets through their decimal  *)
(* text.  bytes_t, uint256/uint168 and BigInt are not in the sources:     *)
(* their text conversions are modelled from the spec (2: big-endian hex,  *)
(* hashes displayed hex-reversed; BigInt with decimal text).              *)
(***************************************************************************)
EXTENDS CRCProposal

\* _hexc(u): the lower-case hex digit of the low nibble of u.
HexDigit(u) == LET v == u % 16 IN IF v <= 9 THEN 48 + v ELSE 97 - 10 + v

\* Mutant: 'a' .. 'f' read one too high.
HexValueOffByOne(c) ==
    CASE c >= 48 /\ c <= 57  -> c - 48
      [] c >= 97 /\ c <= 102 -> c - (97 - 9)
      [] c >= 65 /\ c <= 70  -> c - (65 - 10)
      [] OTHER               -> -1

\* _hexu(c): the value of a hex digit of either case, -1 for any other.
HexValue(c) ==
    CASE c >= 48 /\ c <= 57  -> c - 48
      [] c >= 97 /\ c <= 102 -> c - (97 - 10)
      [] c >= 65 /\ c <= 70  -> c - (65 - 10)
      [] OTHER               -> -1

\* bytes_t::getHex: two digits per byte, high nibble first.
GetHex(b) ==
    [i \in 1..(2 * Len(b)) |-> IF i % 2 = 1 THEN HexDigit(b[(i + 1) \div 2] \div 16)
                                           ELSE HexDigit(b[i \div 2])]

\* bytes_t::setHex: one byte per pair of digits.
SetHex(s) == [i \in 1..(Len(s) \div 2) |-> HexValue(s[2 * i - 1]) * 16 + HexValue(s[2 * i])]

\* uint256/uint168 GetHex and SetHex: the hex of the reversed bytes.
GetHexBlob(b) == GetHex(Reverse(b))
SetHexBlob(s) == Reverse(SetHex(s))

\* BigInt::getDec of a non-negative amount: its decimal digits.
RECURSIVE GetDec(_)
GetDec(n) == IF n < 10 THEN <<48 + n>> ELSE GetDec(n \div 10) \o <<48 + (n % 10)>>

\* BigInt::setDec: the value of a string of decimal digits.
SetDec(s) == FoldLeft(LAMBDA acc, c : acc * 10 + (c - 48), 0, s)

\* CRCProposal::ToJson.  An empty Budgets stays JSON null, which iterates
\* as an empty array: it is the empty sequence here.
ToJson(p) ==
    [Type             |-> p.type,
     SponsorPublicKey |-> GetHex(p.sponsorPublicKey),
     CRSponsorDID     |-> GetHexBlob(p.crSponsorDID),
     DraftHash        |-> GetHexBlob(p.draftHash),
     Budgets          |-> [i \in DOMAIN p.budgets |-> GetDec(p.budgets[i])],
     Recipient        |-> GetHexBlob(p.recipient),
     Signature        |-> GetHex(p.signature),
     CRSignature      |-> GetHex(p.crSignature)]

\* A default-constructed CRCProposal: empty byte strings, zero blobs, no
\* budgets (the type is overwritten by FromJson before it is read).
NewProposal ==
    [type |-> 0, sponsorPublicKey |-> <<>>, draftHash |-> [i \in 1..HashLen |-> 0],
     budgets |-> <<>>, recipient |-> [i \in 1..DIDLen |-> 0], signature |-> <<>>,
     crSponsorDID |-> [i \in 1..DIDLen |-> 0], crSignature |-> <<>>]

\* CRCProposal::FromJson(j) on the proposal q: every field is overwritten
\* except _budgets, which the parsed amounts are appended to; CRSponsorDID
\* and CRSignature are read only when present.
FromJson(q, j) ==
    [q EXCEPT !.type             = j.Type,
              !.sponsorPublicKey = SetHex(j.SponsorPublicKey),
              !.draftHash        = SetHexBlob(j.DraftHash),
              !.budgets          = @ \o [i \in DOMAIN j.Budgets |-> SetDec(j.Budgets[i])],
              !.recipient        = SetHexBlob(j.Recipient),
              !.signature        = SetHex(j.Signature),
              !.crSponsorDID     = IF "CRSponsorDID" \in DOMAIN j THEN SetHexBlob(j.CRSponsorDID) ELSE @,
              !.crSignature      = IF "CRSignature" \in DOMAIN j THEN SetHex(j.CRSignature) ELSE @]
====
