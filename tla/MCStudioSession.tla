---------------------------- MODULE MCStudioSession ----------------------------
(* Two clients, one of them open; they share nothing, and the other stands still: the      *)
(* studio's design page, where one design was saved before and what the clicks create     *)
(* comes on top, and the classic client, opened with nothing stored, with what cannot be  *)
(* read, and with designs of an earlier catalogue and of other ranges.                    *)
EXTENDS StudioSession, ClassicClient
CONSTANTS d1

VARIABLE client

MCSaved == {d1}
MCKept == { [lengthM |-> 10], [glazingId |-> "sixfold"], [occupancyPresetId |-> "camels"] }

MCInit ==
  /\ client \in {"studio", "classic"}
  /\ Init /\ ClassicInit
  /\ client = "studio" => stored = Nothing
StudioStep == client = "studio" /\ Next /\ UNCHANGED <<client, classicVars>>
ClassicStep == client = "classic" /\ ClassicNext /\ UNCHANGED <<client, vars>>
MCNext == StudioStep \/ ClassicStep

(* Calls are answered or lost, and a settled promise runs its handler: StudioSession.tla's  *)
(* fairness, and the like for the classic client.                                          *)
allVars == <<client, vars, classicVars>>
StudioGoes(A) == A /\ UNCHANGED <<client, classicVars>>
ClassicGoes(A) == A /\ UNCHANGED <<client, vars>>
MCFairness ==
  /\ WF_allVars(client = "studio" /\ StudioGoes(GetDesign))
  /\ WF_allVars(client = "studio" /\ StudioGoes(LoadDone \/ (load # None /\ load.given /\ LoadFailed)))
  /\ \A k \in 1..MaxClicks :
       WF_allVars(client = "studio" /\ k \in DOMAIN calls
                  /\ StudioGoes(TakeSave(k) \/ TakeAct(k) \/ SaveAnswered(k) \/ ActAnswered(k) \/ Failed(k)))
  /\ WF_allVars(client = "classic" /\ ClassicGoes(OptionsCome \/ OptionsFail))
  /\ WF_allVars(client = "classic" /\ ClassicGoes(Serve \/ LosePost))
  /\ WF_allVars(client = "classic" /\ ClassicGoes(Answered))
MCSpec == MCInit /\ [][MCNext]_allVars /\ MCFairness

(* StudioSession.tla, ClassicClient.tla: no button stays disabled and no spinner turns for
   good in either client, whatever is lost and wherever the person goes (Studio.tsx 71-190,
   App.tsx 79-91); but for the "Loading design..." of a load that failed, which is
   FailedLoadOffersRetry's.                                                                *)
NeverBusyForGood == []<>~(\/ Busy
                          \/ LoadingDesign /\ ~page.loadError
                          \/ client = "classic" /\ Waiting)
================================================================================
