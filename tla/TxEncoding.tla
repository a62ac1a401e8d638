----------------------------- MODULE TxEncoding -----------------------------
(***************************************************************************)
(* SubWallet::EncodeTx and SubWallet::DecodeTx                            *)
(* (src/SDK/Implement/SubWallet.cpp): a transaction handed between wallets *)
(* as JSON, its serialized bytes in base64 (bytes_t::getBase64 and        *)
(* setBase64 are Base64::Encode and Base64::Decode).  The JSON object is a *)
(* record whose domain is the set of keys present; the ID (a prefix of    *)
(* the hash) and the Fee are only informative and are left out.  The      *)
(* transaction's serializer is not modelled: the CR proposal codec stands *)
(* for Transaction::Serialize/Deserialize, so the bytes handed over are a *)
(* serialized payload.  Every ThrowParamException / CheckParam is the     *)
(* result [ok |-> FALSE].                                                 *)
(***************************************************************************)
EXTENDS Base64, CRCProposal

Mainchain  == "ELA"
IDChain    == "IDChain"
TokenChain == "TokenChain"

\* The JSON EncodeTx fills in for tx bytes raw on the subwallet of chain.
EncodeTx(chain, raw) ==
    [Algorithm |-> "base64", Data |-> Encode(raw), ChainID |-> chain]

\* DecodeTx(j) on the subwallet of chain: a missing key, a ChainID other
\* than the subwallet's, an algorithm other than base64 or bytes the reader
\* refuses are each an InvalidArgument; otherwise the transaction read.  A
\* chain outside the three leaves tx null and Deserialize dereferences it.
DecodeTx(chain, j) ==
    IF ~({"Algorithm", "Data", "ChainID"} \subseteq DOMAIN j)
       \/ j.ChainID # chain
       \/ j.Algorithm # "base64"
    THEN [ok |-> FALSE]
    ELSE IF chain \notin {Mainchain, IDChain, TokenChain}
    THEN [ok |-> FALSE, fault |-> "null tx"]
    ELSE LET r == Deserialize(Decode(j.Data).bytes)
         IN IF r.ok THEN [ok |-> TRUE, tx |-> r.val] ELSE [ok |-> FALSE]
====
