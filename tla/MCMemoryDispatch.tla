--------------------------- MODULE MCMemoryDispatch ---------------------------
(* Instances of MemoryDispatch for TLC: where the requests belong and what they
   bring.  All requests are served by one API process. *)
EXTENDS MemoryDispatch

CONSTANTS r1, r2, r3, app1, app2, service, api

MCLoopOf == [r \in Requests |-> api]

\* One conversation: a turn of a workflow, then a chat message.
ChatConvOf == [r \in Requests |-> app1]
ChatKindOf == [r \in Requests |-> "ingest"]
ChatBatch  == [r \in Requests |-> IF r = r1 THEN <<"user", "assistant">> ELSE <<"user">>]

\* A chat beside the conversation of the service API, which no flush serves: an
\* asynchronous batch and a synchronous one.
MixedConvOf == [r \in Requests |-> IF r = r1 THEN app1 ELSE service]
MixedKindOf == [r \in Requests |-> CASE r = r1 -> "ingest" [] r = r2 -> "batch"
                                      [] r = r3 -> "sync"]
MixedBatch  == [r \in Requests |-> CASE r = r1 -> <<"user", "muted">>
                                      [] r = r2 -> <<"user", "user">>
                                      [] r = r3 -> <<"user", "assistant", "muted">>]

\* Two chats.
TwoConvOf == [r \in Requests |-> IF r = r3 THEN app2 ELSE app1]
OneMessage == [r \in Requests |-> <<"user">>]

\* Two requests of the synchronous service.
SyncConvOf == [r \in Requests |-> service]
SyncKindOf == [r \in Requests |-> "sync"]

=============================================================================
