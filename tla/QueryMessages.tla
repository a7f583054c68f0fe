--------------------------- MODULE QueryMessages ----------------------------
(***************************************************************************)
(* The messages of the query service that the TypeScript client encodes    *)
(* and decodes (query.ts), and those of the HTTP annotations (http.ts):    *)
(* of every message the fields in the order in which encode writes them,   *)
(* as encode, decode, fromJSON, toJSON and createBase all treat them.      *)
(***************************************************************************)
EXTENDS ProtoFields

QueryProofRequest ==
  <<Str("registry", 1), Str("leaf", 2)>>

QueryProofResponse ==
  <<Msg("proof", 1, "Proof")>>

GetEmptyLeafProofRequest ==
  <<Str("registry", 1)>>

GetEmptyLeafProofResponse ==
  <<Msg("proof", 1, "Proof")>>

Proof ==
  <<Str("leaf", 1), Strs("path", 2), Num("index", 3), Str("root", 4)>>

QueryBatchProofsRequest ==
  <<Str("registry", 1), Msgs("operations", 2, "BatchOperation")>>

BatchOperation ==
  <<Str("leafHash", 1), Bool("isAddition", 2, FALSE)>>

QueryBatchProofsResponse ==
  <<Str("initialRoot", 1), Msgs("proofs", 2, "BatchProof")>>

BatchProof ==
  <<Num("index", 1), Strs("path", 2)>>


Http ==
  <<Msgs("rules", 1, "HttpRule"),
    Bool("fullyDecodeReservedExpansion", 2, FALSE)>>

HttpRule ==
  <<Str("selector", 1), Opt("get", 2), Opt("put", 3), Opt("post", 4),
    Opt("delete", 5), Opt("patch", 6), Msg("custom", 8, "CustomHttpPattern"),
    Str("body", 7), Str("responseBody", 12),
    Msgs("additionalBindings", 11, "HttpRule")>>

CustomHttpPattern ==
  <<Str("kind", 1), Str("path", 2)>>

(* The messages by name. *)
QuerySchema ==
  [QueryProofRequest |-> QueryProofRequest,
   QueryProofResponse |-> QueryProofResponse,
   GetEmptyLeafProofRequest |-> GetEmptyLeafProofRequest,
   GetEmptyLeafProofResponse |-> GetEmptyLeafProofResponse, Proof |-> Proof,
   QueryBatchProofsRequest |-> QueryBatchProofsRequest,
   BatchOperation |-> BatchOperation,
   QueryBatchProofsResponse |-> QueryBatchProofsResponse,
   BatchProof |-> BatchProof, Http |-> Http, HttpRule |-> HttpRule,
   CustomHttpPattern |-> CustomHttpPattern]
=============================================================================
