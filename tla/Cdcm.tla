-------------------------------- MODULE Cdcm --------------------------------
(***************************************************************************)
(* The service: the broker of MessageBroker with the worker processes of   *)
(* MessageWorker in place of the workers of BrokerSystem.  held, which     *)
(* counts what the workers have been asked for and have not sent, is a     *)
(* history variable here.                                                  *)
(***************************************************************************)
EXTENDS BrokerSystem, MessageWorker

CONSTANTS MaxDeaths,    \* bound: deaths of worker processes
          Postpones,    \* whether actions may be postponed
          Clock,        \* whether time passes
          Backlog       \* bound: messages of a worker that wait while time passes

ASSUME CdcmAssumption ==
    MaxDeaths \in Nat /\ Postpones \in BOOLEAN /\ Clock \in BOOLEAN /\ Backlog \in Nat

VARIABLE deaths

cdcmVars == <<vars, mw, deaths>>

CdcmTypeOK == TypeOK /\ WorkerTypeOK /\ deaths \in 0..MaxDeaths

CdcmInit == Init /\ WorkerInit /\ deaths = 0

-----------------------------------------------------------------------------
OwesMore(c, n) == held' = [held EXCEPT ![c] = @ + n]
OwesLess(c, n) == held' = [held EXCEPT ![c] = @ - n]

(* The poll of the broker has announced only messages it has received.     *)
AnnouncedIsSafe == "internal" \in todo => \E v \in WorkerId : internal_in'[v] # <<>>

Unremembered(w) == w \notin open /\ ~exists(workers, w) /\ internal_in[w] = <<>>

CallOf(p) == Head(internal_out[mw[p].identity]).req

WorkerStep(p) ==
    /\ \/ /\ \/ \E w \in WorkerId : Unremembered(w) /\ connect_to_broker(p, w)
             \/ \E a \in mw[p].postponed_actions : PostponeAgain(p, a)
             \/ WaitForMessage(p)
             \/ TakeHeartbeat(p)
             \/ TakeDisconnect(p) /\ AnnouncedIsSafe
             \/ PollTimeout(p)
             \/ Reconnect(p) /\ AnnouncedIsSafe
             \/ HeartbeatIfDue(p)
             \/ ActionDone(p)
             \/ Postpones /\ ActionPostponed(p)
             \/ ActionThrows(p)
             \/ StartWorker(p)
          /\ UNCHANGED held
       \/ TakeRequest(p) /\ OwesMore(CallOf(p).call, CallOf(p).actions)
       \/ \E a \in mw[p].postponed_actions : AnswerPostponed(p, a) /\ OwesLess(a.reply_to, 1)
       \/ FinishRequest(p) /\ OwesLess(mw[p].request.call, mw[p].results)
    /\ UNCHANGED <<brokerVars, external_in, external_out, sent, crashes, deaths>>

WorkerDeath(p) ==
    /\ deaths < MaxDeaths
    /\ deaths' = deaths + 1
    /\ WorkerDies(p) /\ AnnouncedIsSafe
    /\ UNCHANGED <<brokerVars, external_in, external_out, sent, envVars>>

CdcmTick ==
    /\ Clock /\ \A w \in WorkerId : Len(internal_in[w]) <= Backlog
    /\ BrokerTick
    /\ WorkersTick
    /\ UNCHANGED <<socketVars, envVars, deaths>>

CdcmNext ==
    \/ BrokerNext /\ UNCHANGED <<envVars, mw, deaths>>
    \/ ClientNext /\ UNCHANGED <<mw, deaths>>
    \/ BrokerCrash /\ UNCHANGED <<mw, deaths>>
    \/ \E p \in Process : WorkerStep(p) \/ WorkerDeath(p)
    \/ CdcmTick

CdcmSpec == CdcmInit /\ [][CdcmNext]_cdcmVars

(* The threads of the broker and of the workers are scheduled, and time    *)
(* goes on.                                                                *)
CdcmFairSpec ==
    /\ CdcmSpec
    /\ WF_cdcmVars(BrokerNext /\ UNCHANGED <<envVars, mw, deaths>>)
    /\ \A p \in Process : WF_cdcmVars(WorkerStep(p))
    /\ WF_cdcmVars(CdcmTick)

-----------------------------------------------------------------------------
(* Properties                                                              *)

(* The workers keep to the protocol that BrokerSystem supposes, so that    *)
(* what is proved about the broker there holds of the service.             *)
ImplementsProtocol == Spec

(* What a worker still has in hand for a call, running or postponed.       *)
InHand(p, c) ==
    Cardinality({a \in mw[p].postponed_actions : a.reply_to = c})
    + (IF mw[p].phase = "act" /\ mw[p].request.call = c
       THEN mw[p].request.actions - mw[p].next + 1 + mw[p].results ELSE 0)

(* What the workers have in hand was asked of them and has not been        *)
(* answered: no action is kept, by the postponed queue of one worker or    *)
(* the running request of another, after its result has been sent.         *)
HandsAreClean ==
    \A c \in Call :
        Cardinality(UNION {{p} \X (1..InHand(p, c)) : p \in Process}) <= held[c]

(* Once there is a worker, every call with worker actions gets an answer:  *)
(* while nothing dies, expires or is postponed, no request stays behind in *)
(* requests_ or in the socket of a worker that was sent two of them.       *)
EveryCallIsAnswered ==
    \A r \in Request :
        r.actions > 0 => (r \in sent ~> external_out[r.call].results > 0)

(* A worker that the broker has forgotten, because it was purged or        *)
(* because the broker died, gets back into the register: it is told to     *)
(* disconnect, or misses the heartbeats of the broker, and says READY      *)
(* again.                                                                  *)
WorkersComeBack == \A p \in Process : []<>exists(workers, mw[p].identity)

=============================================================================
