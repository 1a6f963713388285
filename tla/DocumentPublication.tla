------------------------ MODULE DocumentPublication ------------------------
(***************************************************************************)
(* What the apiproduct controller promises of OpenAPI documents, without   *)
(* caches, calls and conflicts.  A product wants the document at a URL,    *)
(* and each edit of its spec is a new generation of that wish.             *)
(*                                                                         *)
(*  - An answer is published for the generation the product has at that    *)
(*    moment, never for an earlier one.                                    *)
(*  - It is either the document at the URL of that generation, if it keeps *)
(*    the limit, or empty.                                                 *)
(*  - It stays until there is another generation or another limit: there   *)
(*    is one answer for each, and it is not fetched again.                 *)
(***************************************************************************)
EXTENDS Naturals

CONSTANTS Products, URLs, Nothing, DocumentSize, Limits

VARIABLES
  wanted,    \* the generation of each product, and the URL in its spec
  published, \* the generation its status speaks of, and the answer
  limit      \* the size a document may have

Gone        == [generation |-> 0, url |-> Nothing]
Unpublished == [observed |-> 0, openapi |-> Nothing]

Init ==
  /\ wanted \in [Products -> [generation : {1}, url : URLs \cup {Nothing}]]
  /\ published = [p \in Products |-> Unpublished]
  /\ limit \in Limits

Edit(p) ==
  /\ wanted[p].generation # 0
  /\ \E url \in URLs \cup {Nothing} :
       wanted' = [wanted EXCEPT ![p] = [generation |-> wanted[p].generation + 1, url |-> url]]
  /\ UNCHANGED <<published, limit>>

\* A product is created, or deleted.
Replace(p) ==
  /\ \/ wanted' = [wanted EXCEPT ![p] = Gone]
     \/ \E url \in URLs \cup {Nothing} :
          /\ wanted[p] = Gone
          /\ wanted' = [wanted EXCEPT ![p] = [generation |-> 1, url |-> url]]
  /\ published' = [published EXCEPT ![p] = Unpublished]
  /\ UNCHANGED limit

Reconfigure ==
  /\ limit' \in Limits
  /\ UNCHANGED <<wanted, published>>

Answered(p) ==
  /\ published[p].observed = wanted[p].generation
  /\ published[p].openapi # Nothing
  /\ published[p].openapi.limit = limit

Answers(url) ==
  [raw : {Nothing} \cup {u \in {url} : DocumentSize[u] <= limit}, limit : {limit}, time : {0, 1}]

Publish(p) ==
  /\ wanted[p].generation # 0
  /\ \E answer \in IF wanted[p].url = Nothing THEN {Nothing}
                   ELSE IF Answered(p) THEN {published[p].openapi}
                   ELSE Answers(wanted[p].url) :
       published' = [published EXCEPT ![p] = [observed |-> wanted[p].generation,
                                              openapi |-> answer]]
  /\ UNCHANGED <<wanted, limit>>

Next ==
  \/ \E p \in Products : Edit(p) \/ Replace(p) \/ Publish(p)
  \/ Reconfigure

Spec == Init /\ [][Next]_<<wanted, published, limit>>
=============================================================================
