--------------------------------- MODULE Lab ---------------------------------
(***************************************************************************)
(* The Lab (lab-controller.ts, features/lab/state.ts): runs of             *)
(* MakeCredential and GetAssertion, previewed and executed like the        *)
(* mutations of PasskeyMutations, the verification of what they return,    *)
(* and the hand-over of a made credential to GetAssertion.  The Lab is a   *)
(* single record that handlers replace as a whole; the hand-over of a key  *)
(* that is derived (ARKG) does so with the record it read before it waited *)
(* for the derivation.                                                     *)
(*                                                                         *)
(* A result is known by the selection it was made on.  The drafts are left *)
(* out but for the credential handed over.                                 *)
(***************************************************************************)
EXTENDS Naturals, Sequences

CONSTANTS
  LabCall,           \* previews and executions under way at one time
  MaxLabSelections,  \* bound: selections made
  MaxLabWire,        \* bound: messages under way
  MaxVerifying,      \* bound: verifications of a kind under way when another may begin
  NoCapture

ASSUME LabAssumption == MaxLabSelections \in Nat /\ MaxLabWire \in Nat /\ MaxVerifying \in Nat

VARIABLES
  \* Window
  lab,         \* labState
  labSession,  \* its selection: id, 0 if none; attached
  labBusy,     \* authenticatorBusy
  runs,        \* previews and executions: operation, stage, served
  verifying,   \* verifications under way
  captured,    \* the record a hand-over captured before it waits
  \* Service
  labService,  \* its selection
  labMade,     \* selections made so far
  labWire,     \* snapshots and answers, in the order sent
  arkg         \* the keys of made credentials are derived; frozen

labServiceVars == <<labService, labMade>>
labVars == <<lab, labSession, labBusy, runs, verifying, captured, labServiceVars, labWire, arkg>>

-----------------------------------------------------------------------------
(* The record.                                                              *)

Operation == {"make", "get"}
\* makeVerification, getVerification, makeAttestationTrust.
Verification == {"make", "get", "trust"}
Of(v) == IF v = "trust" THEN "make" ELSE v

Phase == {"editing", "previewing", "previewFailed", "review", "executing", "executeFailed", "success"}
Step(phase, result) == [phase |-> phase, result |-> result]

\* pending and handed are the results a credential is from, 0 if there is none.
CreateLabState ==
  [step |-> [op \in Operation |-> Step("editing", 0)],
   check |-> [v \in Verification |-> "idle"], pending |-> 0, handed |-> 0]

\* A step is published, and the verifications of its operation are cleared or begun.
Published(s, op, step, check) ==
  [s EXCEPT !.step[op] = step,
            !.check = [v \in Verification |-> IF Of(v) = op THEN check ELSE s.check[v]]]

Editable(op) == lab.step[op].phase \in {"editing", "previewFailed"}

\* The buttons of the screen, under its dialog.
OnLab == labSession.attached /\ lab.pending = 0
Ready == OnLab /\ ~labBusy

NoRun == [op |-> "none", stage |-> "none", served |-> FALSE]

LabInit ==
  /\ lab = CreateLabState
  /\ labSession = [id |-> 0, attached |-> FALSE] /\ labBusy = FALSE
  /\ runs = [k \in LabCall |-> NoRun]
  /\ verifying = [v \in Verification |-> 0]
  /\ captured = NoCapture
  /\ labService = 0 /\ labMade = 0 /\ labWire = <<>>
  /\ arkg \in BOOLEAN

-----------------------------------------------------------------------------
(* The service.                                                             *)

LabSend(m) == Len(labWire) < MaxLabWire /\ labWire' = Append(labWire, m)

PublishLabSelection ==
  /\ \/ /\ labMade < MaxLabSelections
        /\ labMade' = labMade + 1 /\ labService' = labMade + 1
        /\ LabSend([kind |-> "snapshot", id |-> labMade + 1, attached |-> TRUE])
     \/ /\ labService # 0
        /\ labService' = 0 /\ UNCHANGED labMade
        /\ \E att \in BOOLEAN : LabSend([kind |-> "snapshot", id |-> 0, attached |-> att])
  /\ UNCHANGED <<lab, labSession, labBusy, runs, verifying, captured, arkg>>

\* A run may find its authenticator closed, at its end too.
ServeRun(k) ==
  /\ runs[k] # NoRun /\ ~runs[k].served
  /\ runs' = [runs EXCEPT ![k].served = TRUE]
  /\ \E ok, closed \in BOOLEAN :
       /\ labService = 0 => ~ok /\ closed
       /\ labService' = IF closed THEN 0 ELSE labService
       /\ LabSend([kind |-> "answer", call |-> k, ok |-> ok, closed |-> closed, on |-> labService])
  /\ UNCHANGED <<lab, labSession, labBusy, verifying, captured, labMade, arkg>>

-----------------------------------------------------------------------------
(* The window: what the user does.                                          *)

\* updateLabMakeCredentialDraft, -GetAssertionDraft: the allow list is in the latter.
UpdateLabDraft(op) ==
  /\ Ready /\ Editable(op)
  /\ lab' \in {Published(lab, op, Step("editing", 0), "idle"),
               [Published(lab, op, Step("editing", 0), "idle") EXCEPT
                  !.handed = IF op = "get" THEN 0 ELSE @]}
  /\ UNCHANGED <<labSession, labBusy, runs, verifying, captured, labServiceVars, labWire, arkg>>

Run(k, op, stage) ==
  /\ runs[k] = NoRun
  /\ runs' = [runs EXCEPT ![k] = [op |-> op, stage |-> stage, served |-> FALSE]]
  /\ lab' = Published(lab, op, Step(IF stage = "preview" THEN "previewing" ELSE "executing", 0), "idle")
  /\ labBusy' = TRUE
  /\ UNCHANGED <<labSession, verifying, captured, labServiceVars, labWire, arkg>>

\* previewLabMakeCredential, runLabGetAssertion up to their await.
PreviewLab(k, op) == Ready /\ Editable(op) /\ Run(k, op, "preview")

\* confirmLabMakeCredential, confirmLabGetAssertion, rerunLabGetAssertion.
ConfirmLab(k, op) ==
  /\ Ready /\ lab.step[op].phase \in {"review", "executeFailed"}
  /\ \A v \in Verification : Of(v) = op => verifying[v] < MaxVerifying
  /\ Run(k, op, "execute")

\* editLab.., newLab..Run.
EditLab(op) ==
  /\ Ready
  /\ lab.step[op].phase \in {"review", "success", "previewFailed", "executeFailed"}
  /\ lab' = [Published(lab, op, Step("editing", 0), "idle") EXCEPT !.pending = 0]
  /\ UNCHANGED <<labSession, labBusy, runs, verifying, captured, labServiceVars, labWire, arkg>>

\* retryLab.., or updateLabVerificationMaterial below a result.
VerifyAgain(v) ==
  /\ OnLab /\ lab.step[Of(v)].phase = "success"
  /\ v = "get" \/ lab.check[v] = "error"
  /\ verifying[v] < MaxVerifying
  /\ lab' = [lab EXCEPT !.check[v] = "loading"]
  /\ verifying' = [verifying EXCEPT ![v] = @ + 1]
  /\ UNCHANGED <<labSession, labBusy, runs, captured, labServiceVars, labWire, arkg>>

\* completeHandoff.
HandedOver(s, result) ==
  [Published(s, "get", Step("editing", 0), "idle") EXCEPT !.pending = 0, !.handed = result]

\* The end of handoffLabCredential, of the record s it has read: what GetAssertion
\* shows is only replaced after a dialog.
AskOrHand(s, differentRP) ==
  IF differentRP \/ s.step["get"].phase = "success"
  THEN [s EXCEPT !.pending = s.step["make"].result]
  ELSE HandedOver(lab, s.step["make"].result)

\* handoffLabCredential up to its await, if it has one.
HandoffLabCredential ==
  /\ Ready /\ lab.step["make"].phase = "success"
  /\ IF arkg
     THEN captured = NoCapture /\ captured' = lab /\ UNCHANGED lab
     ELSE (\E differentRP \in BOOLEAN : lab' = AskOrHand(lab, differentRP)) /\ UNCHANGED captured
  /\ UNCHANGED <<labSession, labBusy, runs, verifying, labServiceVars, labWire, arkg>>

ConfirmLabHandoff ==
  /\ labSession.attached /\ lab.pending # 0
  /\ lab' = HandedOver(lab, lab.pending)
  /\ UNCHANGED <<labSession, labBusy, runs, verifying, captured, labServiceVars, labWire, arkg>>

CancelLabHandoff ==
  /\ labSession.attached /\ lab.pending # 0
  /\ lab' = [lab EXCEPT !.pending = 0]
  /\ UNCHANGED <<labSession, labBusy, runs, verifying, captured, labServiceVars, labWire, arkg>>

-----------------------------------------------------------------------------
(* The window: what arrives.                                                *)

\* derivePreviewSignARKGP256 returns; a failure only shows in the status bar.
DerivationReturns ==
  /\ captured # NoCapture
  /\ captured' = NoCapture
  /\ \/ UNCHANGED lab
     \/ \E differentRP \in BOOLEAN : lab' = AskOrHand(captured, differentRP)
  /\ UNCHANGED <<labSession, labBusy, runs, verifying, labServiceVars, labWire, arkg>>

\* verify.. and assess.. publish whatever is shown by then.
VerificationReturns(v) ==
  /\ verifying[v] > 0
  /\ verifying' = [verifying EXCEPT ![v] = @ - 1]
  /\ \E phase \in {"ready", "error"} : lab' = [lab EXCEPT !.check[v] = phase]
  /\ UNCHANGED <<labSession, labBusy, runs, captured, labServiceVars, labWire, arkg>>

LabDelivers(kind) == labWire # <<>> /\ Head(labWire).kind = kind /\ labWire' = Tail(labWire)

\* Mutant of Boundary: a selection that is only lost leaves the Lab as it is.
ResetsForNext(next) == IF next # labSession /\ next.id # 0 THEN CreateLabState ELSE lab

\* resetLabDeviceState, when the selection changes.
Boundary(next) == IF next # labSession THEN CreateLabState ELSE lab

ApplyLabSnapshot ==
  /\ LabDelivers("snapshot")
  /\ labSession' = [id |-> Head(labWire).id, attached |-> Head(labWire).attached]
  /\ lab' = Boundary(labSession')
  /\ UNCHANGED <<labBusy, runs, verifying, captured, labServiceVars, arkg>>

\* What runConfirmedPreview and -Execution publish.
Returned(run, a) ==
  CASE ~a.ok -> Published(lab, run.op,
                  Step(IF run.stage = "preview" THEN "previewFailed" ELSE "executeFailed", 0), "idle")
    [] a.ok /\ run.stage = "preview" -> Published(lab, run.op, Step("review", 0), "idle")
    [] OTHER -> Published(lab, run.op, Step("success", a.on), "loading")

RunReturns ==
  /\ LabDelivers("answer")
  /\ LET a == Head(labWire)
         run == runs[a.call]
     IN /\ lab' = IF a.closed THEN CreateLabState ELSE Returned(run, a)
        /\ labSession' = IF a.closed THEN [labSession EXCEPT !.id = 0] ELSE labSession
        /\ runs' = [runs EXCEPT ![a.call] = NoRun]
        /\ verifying' = [v \in Verification |->
             IF a.ok /\ run.stage = "execute" /\ Of(v) = run.op THEN verifying[v] + 1 ELSE verifying[v]]
  /\ labBusy' = FALSE
  /\ UNCHANGED <<captured, labServiceVars, arkg>>

\* An operation of another screen ends, which loadActiveScreen has begun beside.
OtherOperationEnds ==
  /\ labBusy /\ labBusy' = FALSE
  /\ UNCHANGED <<lab, labSession, runs, verifying, captured, labServiceVars, labWire, arkg>>

LabNext ==
  \/ PublishLabSelection
  \/ \E k \in LabCall : ServeRun(k) \/ \E op \in Operation : PreviewLab(k, op) \/ ConfirmLab(k, op)
  \/ \E op \in Operation : UpdateLabDraft(op) \/ EditLab(op)
  \/ \E v \in Verification : VerifyAgain(v) \/ VerificationReturns(v)
  \/ HandoffLabCredential \/ ConfirmLabHandoff \/ CancelLabHandoff \/ DerivationReturns
  \/ ApplyLabSnapshot \/ RunReturns \/ OtherOperationEnds

LabSpec == LabInit /\ [][LabNext]_labVars

-----------------------------------------------------------------------------
(* Properties.                                                              *)

LabTypeOK ==
  /\ \A op \in Operation : lab.step[op].phase \in Phase /\ lab.step[op].result \in 0..MaxLabSelections
  /\ lab.pending \in 0..MaxLabSelections /\ lab.handed \in 0..MaxLabSelections
  /\ labService \in 0..labMade

RunUnderWay(op, stage) == \E k \in LabCall : runs[k].op = op /\ runs[k].stage = stage

\* Nothing shows as previewing, executing or verifying unless the call it waits for
\* is under way, and the buttons come back.
LabWaits ==
  /\ \A op \in Operation :
       /\ lab.step[op].phase = "previewing" => RunUnderWay(op, "preview")
       /\ lab.step[op].phase = "executing" => RunUnderWay(op, "execute")
  /\ \A v \in Verification : lab.check[v] = "loading" => verifying[v] > 0
  /\ labBusy => \E k \in LabCall : runs[k] # NoRun

\* The results on the Lab are of the authenticator that is selected: those of
\* another are cleared at its boundary (README.md:127).
LabResultsOfSession ==
  \A op \in Operation :
    lab.step[op].phase = "success" => lab.step[op].result = labSession.id

\* So is the credential a hand-over asks about, and the one it has handed over.
LabHandoffOfSession == {lab.pending, lab.handed} \subseteq {0, labSession.id}

\* As long as no key is derived: the hand-over of a derived one restores the Lab of
\* before its derivation.
LabInv == LabTypeOK /\ (~arkg => LabWaits /\ LabResultsOfSession /\ LabHandoffOfSession)

=============================================================================
