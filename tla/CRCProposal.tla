---------------------------- MODULE CRCProposal ----------------------------
(***************************************************************************)
(* The binary codec of the CR proposal payload                            *)
(* (src/SDK/Plugin/Transaction/Payload/CRCProposal.cpp) as pure           *)
(* operators over byte sequences, with the ByteStream primitives it uses. *)
(* ByteStream is not in the sources; its writer and reader are modelled   *)
(* from the spec (4.2): little-endian fixed-width integers, varUint with  *)
(* 1/3/5/9-byte encodings, varBytes as varUint length and raw bytes, raw  *)
(* fixed-length blocks, and a reader that fails on end of input.          *)
(***************************************************************************)
EXTENDS Naturals, Sequences, SequencesExt

Byte == 0..255

\* Little-endian encoding of n in w bytes, and its inverse.
RECURSIVE LE(_, _)
LE(n, w) == IF w = 0 THEN <<>> ELSE <<n % 256>> \o LE(n \div 256, w - 1)
FromLE(s) == FoldLeft(LAMBDA acc, b : acc * 256 + b, 0, Reverse(s))

\* ByteStream::WriteVarUint.
VarUint(n) ==
    CASE n < 253              -> <<n>>
      [] n < 65536            -> <<253>> \o LE(n, 2)
      [] n \div 65536 < 65536 -> <<254>> \o LE(n, 4)
      [] OTHER                -> <<255>> \o LE(n, 8)

\* ByteStream::WriteVarBytes.
VarBytes(b) == VarUint(Len(b)) \o b

\* The reader: a read yields ok, the value read and the rest of the input.
Fail == [ok |-> FALSE, val |-> 0, rest |-> <<>>]
Got(v, rest) == [ok |-> TRUE, val |-> v, rest |-> rest]

\* ByteStream::ReadBytes of a fixed-length block.
ReadBytes(s, w) == IF Len(s) >= w THEN Got(SubSeq(s, 1, w), SubSeq(s, w + 1, Len(s))) ELSE Fail

\* ByteStream::ReadUint8/ReadUint64: w bytes, little endian.
ReadUint(s, w) == LET r == ReadBytes(s, w) IN IF r.ok THEN Got(FromLE(r.val), r.rest) ELSE Fail

\* ByteStream::ReadVarUint.
ReadVarUint(s) ==
    LET h == ReadUint(s, 1)
    IN CASE ~h.ok        -> Fail
         [] h.val < 253  -> h
         [] h.val = 253  -> ReadUint(h.rest, 2)
         [] h.val = 254  -> ReadUint(h.rest, 4)
         [] OTHER        -> ReadUint(h.rest, 8)

\* ByteStream::ReadVarBytes.
ReadVarBytes(s) ==
    LET n == ReadVarUint(s) IN IF n.ok THEN ReadBytes(n.rest, n.val) ELSE Fail

-----------------------------------------------------------------------------
(* The proposal.  uint256 and uint168 are raw 32- and 21-byte blocks;     *)
(* budgets are written as their 64-bit value.                             *)

HashLen == 32
DIDLen == 21

\* ByteStream::WriteUint64 of each budget, in order.
U64s(v) == FlattenSeq([i \in DOMAIN v |-> LE(v[i], 8)])

\* CRCProposal::SerializeUnsigned.
SerializeUnsigned(p) ==
    LE(p.type, 1) \o VarBytes(p.sponsorPublicKey) \o p.draftHash
      \o VarUint(Len(p.budgets)) \o U64s(p.budgets) \o p.recipient

\* CRCProposal::SerializeSponsorSigned: throws on an empty signature.
SerializeSponsorSigned(p) ==
    IF Len(p.signature) = 0 THEN [ok |-> FALSE, val |-> <<>>]
    ELSE [ok |-> TRUE, val |-> SerializeUnsigned(p) \o VarBytes(p.signature)]

\* Mutant: the CR signature is written before the CR sponsor DID.
SerializeCrSigFirst(p) ==
    SerializeUnsigned(p) \o VarBytes(p.signature)
      \o VarBytes(p.crSignature) \o p.crSponsorDID

\* CRCProposal::Serialize: every field, whatever the version.
Serialize(p) ==
    SerializeUnsigned(p) \o VarBytes(p.signature)
      \o p.crSponsorDID \o VarBytes(p.crSignature)

\* The budgets loop: _budgets.resize(count), then count ReadUint64,
\* returning false at the first that fails.
RECURSIVE ReadU64s(_, _, _)
ReadU64s(s, n, acc) ==
    IF n = 0 THEN Got(acc, s)
    ELSE LET r == ReadUint(s, 8)
         IN IF r.ok THEN ReadU64s(r.rest, n - 1, Append(acc, r.val)) ELSE Fail

\* One read of a Deserialize function: the field it fills and its reader.
ReadStep(name, kind, w) == [name |-> name, kind |-> kind, w |-> w]

ReadField(r, s) ==
    CASE r.kind = "u8"       -> ReadUint(s, 1)
      [] r.kind = "varbytes" -> ReadVarBytes(s)
      [] r.kind = "fixed"    -> ReadBytes(s, r.w)
      [] r.kind = "u64s"     ->
            LET n == ReadVarUint(s) IN IF n.ok THEN ReadU64s(n.rest, n.val, <<>>) ELSE Fail

\* The reads of steps in turn, from where st left the stream; the first one
\* that fails makes the whole call return false.
ReadAll(st, steps) ==
    FoldLeft(LAMBDA acc, r :
               IF ~acc.ok THEN acc
               ELSE LET x == ReadField(r, acc.rest)
                    IN IF x.ok THEN Got(acc.val @@ (r.name :> x.val), x.rest) ELSE Fail,
             st, steps)

\* CRCProposal::DeserializeUnsigned: type, sponsor key, draft hash, budget
\* count and budgets, recipient.
DeserializeUnsigned(s) ==
    ReadAll(Got(<<>>, s),
            << ReadStep("type", "u8", 1), ReadStep("sponsorPublicKey", "varbytes", 0),
               ReadStep("draftHash", "fixed", HashLen), ReadStep("budgets", "u64s", 0),
               ReadStep("recipient", "fixed", DIDLen) >>)

\* CRCProposal::DeserializeSponsorSigned: the unsigned part, then the
\* sponsor's signature.
DeserializeSponsorSigned(s) ==
    ReadAll(DeserializeUnsigned(s), << ReadStep("signature", "varbytes", 0) >>)

\* Mutant: the result of the last ReadVarBytes is not checked; the CR
\* signature keeps the empty value of a new proposal.
DeserializeUncheckedCrSig(s) ==
    LET c == ReadAll(DeserializeSponsorSigned(s), << ReadStep("crSponsorDID", "fixed", DIDLen) >>)
        g == ReadVarBytes(c.rest)
    IN IF c.ok
       THEN Got(c.val @@ ("crSignature" :> IF g.ok THEN g.val ELSE <<>>),
                IF g.ok THEN g.rest ELSE c.rest)
       ELSE Fail

\* CRCProposal::Deserialize: the sponsor-signed part, the CR sponsor DID
\* and the CR signature.  Bytes after the last field are left unread.
Deserialize(s) ==
    ReadAll(DeserializeSponsorSigned(s),
            << ReadStep("crSponsorDID", "fixed", DIDLen), ReadStep("crSignature", "varbytes", 0) >>)

\* Mutant: the length prefix of the CR signature is not counted.
EstimateSizeNoCrSigLen(p) ==
    1 + Len(VarUint(Len(p.sponsorPublicKey))) + Len(p.sponsorPublicKey)
      + HashLen
      + Len(VarUint(Len(p.budgets))) + 8 * Len(p.budgets)
      + DIDLen
      + Len(VarUint(Len(p.signature))) + Len(p.signature)
      + DIDLen
      + Len(p.crSignature)

\* CRCProposal::EstimateSize.
EstimateSize(p) ==
    1 + Len(VarUint(Len(p.sponsorPublicKey))) + Len(p.sponsorPublicKey)
      + HashLen
      + Len(VarUint(Len(p.budgets))) + 8 * Len(p.budgets)
      + DIDLen
      + Len(VarUint(Len(p.signature))) + Len(p.signature)
      + DIDLen
      + Len(VarUint(Len(p.crSignature))) + Len(p.crSignature)

====
