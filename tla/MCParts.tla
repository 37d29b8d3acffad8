------------------------------ MODULE MCParts ------------------------------
(***************************************************************************)
(* Components that share nothing, explored side by side by TLC: a          *)
(* behaviour is one of StreamingReader, WorkStealing, UploadQueue,         *)
(* DownloadSession or MetadataExchange, as `part` says; the other parts    *)
(* stay as they begin.                                                     *)
(***************************************************************************)
EXTENDS StreamingReader, WorkStealing, UploadQueue, DownloadSession

CONSTANTS TrueSize, Claims, MaxMetadataSize, Slots, MaxMisdeeds

VARIABLES
    part,
    size, blocks, buffer, verified, requests, misdeeds

exchangeVars == <<size, blocks, buffer, verified, requests, misdeeds>>
allVars == <<part, vars, stealVars, queueVars, sessionVars, exchangeVars>>

Exchange == INSTANCE MetadataExchange

PartsInit ==
    /\ part \in {"reader", "stealing", "upload", "session", "metadata"}
    /\ Init /\ StealInit /\ QueueInit /\ SessionInit /\ Exchange!ExchangeInit

PartsNext ==
    \/ /\ part = "reader" /\ Next
       /\ UNCHANGED <<part, stealVars, queueVars, sessionVars, exchangeVars>>
    \/ /\ part = "stealing" /\ StealNext
       /\ UNCHANGED <<part, vars, queueVars, sessionVars, exchangeVars>>
    \/ /\ part = "upload" /\ QueueNext
       /\ UNCHANGED <<part, vars, stealVars, sessionVars, exchangeVars>>
    \/ /\ part = "session" /\ SessionNext
       /\ UNCHANGED <<part, vars, stealVars, queueVars, exchangeVars>>
    \/ /\ part = "metadata" /\ Exchange!ExchangeNext
       /\ UNCHANGED <<part, vars, stealVars, queueVars, sessionVars>>

(* A session without downloads may rest; TLC would take it for a deadlock  *)
(* when the bounds allow no more.                                          *)
Rest == part = "session" /\ entries = <<>> /\ UNCHANGED allVars

(* The fairness of each part, in behaviours of that part.                  *)
PartsSpec ==
    /\ PartsInit /\ [][PartsNext \/ Rest]_allVars
    /\ WF_vars(part = "reader" /\ Awake)
    /\ WF_vars(part = "reader" /\ DueWakeUp)
    /\ WF_vars(part = "reader" /\ TimePasses)
    /\ \A w \in Workers :
          WF_stealVars(part = "stealing" /\ (Own(w) \/ Thief(w)))
    /\ \A p \in Peers : WF_queueVars(part = "upload" /\ ReleaseOfAHolder(p))
    /\ WF_exchangeVars(part = "metadata" /\ Exchange!Verify)
    /\ \A s \in Slots : WF_exchangeVars(part = "metadata" /\ Exchange!Progress(s))
-----------------------------------------------------------------------------
(* Everyone gets through: a call of the reader returns (StreamingReader),   *)
(* whoever downloads ranges stops in the end (WorkStealing), and a peer     *)
(* that waits for a slot gets one or gives up, if transfers end             *)
(* (UploadQueue).                                                           *)
EveryoneGetsThrough ==
    /\ CallsReturn
    /\ part = "stealing" => AllStop
    /\ EveryoneIsServed

(* Misdeeds of peers do not keep the metadata away (MetadataExchange).     *)
MetadataArrives == part = "metadata" => Exchange!MetadataArrives
=============================================================================
