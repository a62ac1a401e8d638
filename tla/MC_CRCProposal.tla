--------------------------- MODULE MC_CRCProposal ---------------------------
(***************************************************************************)
(* Checks the CR proposal codec over a bounded set of proposals: each     *)
(* initial state holds one proposal p and no step changes it, so the      *)
(* invariants below are checked once for every proposal of the set.      *)
(* Lengths straddle the one-byte varUint limit (252/253); budgets include *)
(* the largest value TLC's integers hold.                                 *)
(***************************************************************************)
EXTENDS TxEncoding, CRCProposalJson, FiniteSets

VARIABLE p

Bytes(n, b) == [i \in 1..n |-> b]

Budgets == {0, 300, 2147483647}

Proposals ==
    [type : {0, 2},
     sponsorPublicKey : {Bytes(n, 2) : n \in {0, 33, 253}},
     draftHash : {[i \in 1..HashLen |-> i]},
     budgets : {<<>>} \cup [1..1 -> Budgets] \cup [1..2 -> Budgets],
     recipient : {Bytes(DIDLen, 33)},
     signature : {Bytes(n, 254) : n \in {0, 64}},
     crSponsorDID : {Bytes(DIDLen, 103)},
     crSignature : {Bytes(n, 255) : n \in {0, 65}}]

\* Short byte strings whose encodings use '+', '/' and both paddings.
ShortBytes == UNION {[1..n -> {0, 251, 255}] : n \in 1..4}

Init == p \in Proposals
Next == UNCHANGED p
Spec == Init /\ [][Next]_p

\* Spec 4.4: deserialize(serialize(x)) == x.  CRCProposal::Deserialize
\* reads the fields in the order Serialize writes them, each with the
\* reader matching its writer, and consumes all of what was written.
RoundTrip == Deserialize(Serialize(p)) = Got(p, <<>>)

\* EstimateSize, which the fee computation relies on, is exactly the size
\* Serialize writes.
SizeEstimated == EstimateSize(p) = Len(Serialize(p))

\* Every proper prefix of a serialized proposal is rejected: Deserialize
\* never accepts a truncated payload (the spec's "Reader returns false on
\* EOF"; no partial proposal is exposed).
TruncationRejected ==
    LET s == Serialize(p)
    IN \A k \in 0..(Len(s) - 1) : ~Deserialize(SubSeq(s, 1, k)).ok

\* Base64::Decode sizes its buffer from the input's length and padding
\* before BIO_read writes into it: on every string Base64::Encode or
\* EncodeURL produces (the Data of EncodeTx among them) the bytes BIO_read
\* returns fit the buffer, so the write stays inside it.
DecodeBufferFits ==
    \A b \in ShortBytes \cup {Serialize(p)} :
        /\ Len(Decode(Encode(b)).bytes) <= Decode(Encode(b)).buffer
        /\ Len(DecodeURL(EncodeURL(b)).bytes) <= DecodeURL(EncodeURL(b)).buffer

\* Base64::DecodeURL inverts EncodeURL: the '=' it strips are restored and
\* the '-' and '_' mapped back, for every remainder of the length mod 3.
URLRoundTrip ==
    \A b \in ShortBytes \cup {Serialize(p)} : DecodeURL(EncodeURL(b)).bytes = b

\* CRCProposal::FromJson on a new proposal restores every field ToJson
\* wrote: hex, reversed hex and decimal text are read back to the same
\* bytes and amounts, so a proposal passed through its JSON form
\* serializes, and so hashes and verifies, as before.
JsonRoundTrip ==
    /\ FromJson(NewProposal, ToJson(p)) = p
    /\ Serialize(FromJson(NewProposal, ToJson(p))) = Serialize(p)
====
