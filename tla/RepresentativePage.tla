------------------------- MODULE RepresentativePage -------------------------
(***************************************************************************)
(* How an organizer's representative proves who they are, in the browser:  *)
(* the embedded check of Persona (PersonaIdentityVerification.tsx) when it *)
(* is configured, and the guided capture of a selfie and of both sides of  *)
(* an identity document (LinkedInStyleIdentityCapture.tsx) when it is not. *)
(*                                                                         *)
(* Both are chains of awaits on a camera, a network and timers.  The page  *)
(* stays usable meanwhile: pressing Back resets what the page shows, and a *)
(* chain that is under way goes on all the same and writes its step over   *)
(* whatever the page has come to.                                          *)
(***************************************************************************)
EXTENDS Naturals, Sequences

VARIABLES
    held,       \* backend: the kinds of evidence stored
    inquiry,    \* Persona: the state of the inquiry
    verified,   \* backend: representativeIdentityVerified
    view,       \* the step of the capture
    stage,      \* selfieStageRef: which pose is asked for
    frames,     \* selfieFramesRef: the poses captured
    camera,     \* cameraReady
    opening,    \* camera requests under way, by what they are for
    tracker,    \* the face tracker runs
    capture,    \* the capture under way, which holds captureLock
    choosing,   \* how many times the details are being saved, before the document is shown
    uploading,  \* the flag that disables the choice
    popup,      \* the screen of the Persona component
    chain,      \* what startPersona or a callback of its client awaits
    tries       \* attempts of processCompletedInquiry

capturing == <<view, stage, frames, camera, opening, tracker, capture, choosing, uploading>>
persona == <<popup, chain, tries>>
pagevars == <<held, inquiry, verified, capturing, persona>>

Kinds == {"selfie", "front", "back"}
Nothing == [kind |-> "none"]
MaxFrames == 4      \* bound: a fifth frame is refused like a fourth
MaxChoosing == 2    \* bound: saves of the details under way
SideOf == [front |-> "document-front", back |-> "document-back"]

-----------------------------------------------------------------------------
(* The camera and the tracker. *)

(* startCamera: what was open is stopped, then the permission is awaited. *)
(* Bound: one request of a kind at a time.                                 *)
AskCamera(purpose) ==
    /\ purpose \notin opening
    /\ opening' = opening \cup {purpose}
    /\ camera' = "off"

(* The chain that asked for the camera ends with the answer: the one for   *)
(* the back held the lock until then.                                      *)
CameraAnswered(purpose) ==
    /\ purpose \in opening
    /\ opening' = opening \ {purpose}
    /\ capture' = IF purpose = "back" THEN Nothing ELSE capture
    /\ uploading' = (uploading /\ purpose = "selfie")
    /\ UNCHANGED <<held, inquiry, verified, stage, frames, choosing, persona>>

(* The tracker is started for a selfie even when the page has moved on. *)
CameraOpens(purpose) ==
    /\ CameraAnswered(purpose)
    /\ camera' = "on"
    /\ tracker' = IF purpose = "selfie" THEN "loading" ELSE tracker
    /\ UNCHANGED view

CameraRefused(purpose) ==
    /\ CameraAnswered(purpose)
    /\ view' = IF purpose = "selfie" THEN "ready" ELSE "document-choice"
    /\ UNCHANGED <<camera, tracker>>

TrackerLoads ==
    /\ tracker = "loading"
    /\ tracker' \in {"on", "failed"}
    /\ UNCHANGED <<held, inquiry, verified, view, stage, frames, camera, opening, capture, choosing, uploading, persona>>

RetryFaceScanner ==
    /\ view = "selfie" /\ tracker = "failed"
    /\ tracker' = "loading"
    /\ UNCHANGED <<held, inquiry, verified, view, stage, frames, camera, opening, capture, choosing, uploading, persona>>

-----------------------------------------------------------------------------
(* The guided capture. *)

(* The views that have a Back button; one that scans or is complete has    *)
(* none.                                                                   *)
ReadyView == view = "ready"
SelfieView == view = "selfie"
ChoiceView == view = "document-choice"
SideView == view \in {"document-front", "document-back"}
CompleteView == view = "complete"

BeginSelfie ==
    /\ ReadyView
    /\ view' = "selfie"
    /\ stage' = 1 /\ frames' = <<>>
    /\ AskCamera("selfie")
    /\ UNCHANGED <<held, inquiry, verified, tracker, capture, choosing, uploading, persona>>

Restart ==
    /\ SelfieView \/ ChoiceView \/ SideView
    /\ view' = "ready"
    /\ stage' = 1 /\ frames' = <<>>
    /\ camera' = "off" /\ tracker' = "off"
    /\ UNCHANGED <<held, inquiry, verified, opening, capture, choosing, uploading, persona>>

Continue ==
    /\ CompleteView
    /\ view' = "ready" /\ camera' = "off" /\ tracker' = "off"
    /\ UNCHANGED <<held, inquiry, verified, stage, frames, opening, capture, choosing, uploading, persona>>

(* A face in the guide in the pose of the stage, held for long enough; the *)
(* turn to the other side is a turn away from the first.                   *)
PoseHeld ==
    SelfieView /\ camera = "on" /\ tracker = "on" /\ capture = Nothing

CapturePose ==
    /\ PoseHeld
    /\ Len(frames) < MaxFrames
    /\ frames' = Append(frames, stage)
    /\ capture' = [kind |-> "pose", stage |-> stage, frames |-> frames', at |-> "shown"]
    /\ UNCHANGED <<held, inquiry, verified, view, stage, camera, opening, tracker, choosing, uploading, persona>>

(* After the moment that shows "Captured": the next pose, or the upload.   *)
PoseShown ==
    /\ capture.kind = "pose" /\ capture.at = "shown"
    /\ IF capture.stage < 3
       THEN stage' = capture.stage + 1 /\ capture' = Nothing
       ELSE stage' = stage /\ capture' = [capture EXCEPT !.at = "uploading"]
    /\ uploading' = (capture.stage = 3)
    /\ UNCHANGED <<held, inquiry, verified, view, frames, camera, opening, tracker, choosing, persona>>

(* Mutant: the page goes on when the upload has failed. *)
SelfieFailedMovesOn ==
    /\ capture.kind = "pose" /\ capture.at = "uploading"
    /\ UNCHANGED held
    /\ capture' = Nothing
    /\ tracker' = "off" /\ camera' = "off"
    /\ view' = "document-choice"
    /\ uploading' = FALSE
    /\ UNCHANGED <<inquiry, verified, stage, frames, opening, choosing, persona>>

(* The three frames are drawn side by side; drawing a fourth throws, and   *)
(* so does a failed upload.  The frames are kept, so the next capture of   *)
(* the last pose makes a fourth, and only starting over helps.             *)
SelfieUploaded ==
    /\ capture.kind = "pose" /\ capture.at = "uploading"
    /\ Len(capture.frames) <= 3
    /\ held' = held \cup {"selfie"}
    /\ capture' = Nothing
    /\ tracker' = "off" /\ camera' = "off"
    /\ view' = "document-choice"
    /\ uploading' = FALSE
    /\ UNCHANGED <<inquiry, verified, stage, frames, opening, choosing, persona>>

SelfieFailed ==
    /\ capture.kind = "pose" /\ capture.at = "uploading"
    /\ \/ Len(capture.frames) <= 3 /\ held' = held \cup {"selfie"}
       \/ UNCHANGED held
    /\ capture' = Nothing
    /\ uploading' = FALSE
    /\ UNCHANGED <<inquiry, verified, view, stage, frames, camera, opening, tracker, choosing, persona>>

(* uploading disables the choice; the end of a capture enables it again.   *)
ChooseDocument ==
    /\ ChoiceView
    /\ ~uploading
    /\ choosing < MaxChoosing
    /\ choosing' = choosing + 1
    /\ uploading' = TRUE
    /\ UNCHANGED <<held, inquiry, verified, view, stage, frames, camera, opening, tracker, capture, persona>>

DetailsSaved ==
    /\ choosing > 0
    /\ choosing' = choosing - 1
    /\ view' = "document-front"
    /\ AskCamera("front")
    /\ UNCHANGED <<held, inquiry, verified, stage, frames, tracker, capture, uploading, persona>>

DetailsRefused ==
    /\ choosing > 0
    /\ choosing' = choosing - 1
    /\ uploading' = FALSE
    /\ UNCHANGED <<held, inquiry, verified, view, stage, frames, camera, opening, tracker, capture, persona>>

(* By the button or when the countdown ends. *)
CaptureDocumentSide(side) ==
    /\ view = SideOf[side] /\ camera = "on"
    /\ capture = Nothing
    /\ capture' = [kind |-> side, at |-> "uploading"]
    /\ uploading' = TRUE
    /\ UNCHANGED <<held, inquiry, verified, view, stage, frames, camera, opening, tracker, choosing, persona>>

SideUploaded ==
    /\ capture.kind \in DOMAIN SideOf /\ capture.at = "uploading"
    /\ held' = held \cup {capture.kind}
    /\ camera' = "off"
    /\ view' = "scanning"
    /\ capture' = [capture EXCEPT !.at = "scanning"]
    /\ UNCHANGED <<inquiry, verified, stage, frames, opening, tracker, choosing, uploading, persona>>

SideFailed ==
    /\ capture.kind \in DOMAIN SideOf /\ capture.at = "uploading"
    /\ \/ held' = held \cup {capture.kind}
       \/ UNCHANGED held
    /\ capture' = Nothing
    /\ uploading' = FALSE
    /\ UNCHANGED <<inquiry, verified, view, stage, frames, camera, opening, tracker, choosing, persona>>

(* The lock is held until the camera for the back is answered. *)
SideScanned ==
    /\ capture.kind \in DOMAIN SideOf /\ capture.at = "scanning"
    /\ \/ /\ capture.kind = "front"
          /\ view' = "document-back"
          /\ capture' = [capture EXCEPT !.at = "opening"]
          /\ AskCamera("back")
       \/ /\ capture.kind = "back"
          /\ view' = "complete"
          /\ capture' = Nothing
          /\ UNCHANGED <<camera, opening>>
    /\ uploading' = (uploading /\ capture.kind = "front")
    /\ UNCHANGED <<held, inquiry, verified, stage, frames, tracker, choosing, persona>>

CaptureNext ==
    \/ BeginSelfie \/ Restart \/ Continue \/ TrackerLoads \/ RetryFaceScanner
    \/ CapturePose \/ PoseShown \/ SelfieUploaded \/ SelfieFailed
    \/ \E purpose \in Kinds : CameraOpens(purpose) \/ CameraRefused(purpose)
    \/ ChooseDocument \/ DetailsSaved \/ DetailsRefused
    \/ \E side \in DOMAIN SideOf : CaptureDocumentSide(side)
    \/ SideUploaded \/ SideFailed \/ SideScanned

-----------------------------------------------------------------------------
(* The Persona component.  Inquiries move on at Persona; the backend asks  *)
(* for their state, or is told by a webhook, and stores an approval.       *)

Passed == {"completed", "needs_review"}
Over == {"declined", "failed"}

Shown(s) == popup = s

PersonaMoves ==
    /\ \/ inquiry \in {"created", "pending"} /\ inquiry' \in {"pending", "completed", "failed"}
       \/ inquiry \in Passed /\ inquiry' \in {"needs_review", "approved", "declined"}
    /\ verified' \in {verified, inquiry' = "approved"}
    /\ UNCHANGED <<held, capturing, persona>>

(* GET status: refreshInquiryStatus. *)
RefreshStatus == verified' = (inquiry = "approved")

OpenIntro ==
    /\ ~verified /\ Shown("idle") /\ chain = "none"
    /\ popup' = "intro"
    /\ UNCHANGED <<held, inquiry, verified, capturing, chain, tries>>

NotNow ==
    /\ Shown("intro")
    /\ popup' = "idle"
    /\ UNCHANGED <<held, inquiry, verified, capturing, chain, tries>>

StartPersona ==
    /\ Shown("intro")
    /\ popup' = "launching"
    /\ chain' = "starting"
    /\ UNCHANGED <<held, inquiry, verified, capturing, tries>>

(* The details are saved and the inquiry created or fetched; what follows  *)
(* depends on its state.                                                   *)
InquiryAnswered ==
    /\ chain = "starting"
    /\ inquiry' = IF inquiry = "none" THEN "created" ELSE inquiry
    /\ CASE inquiry' = "approved" \/ verified -> chain' = "confirming" /\ UNCHANGED <<popup, tries>>
         [] inquiry' \in Passed -> chain' = "polling" /\ popup' = "processing" /\ tries' = 0
         [] inquiry' \in Over -> chain' = "declining" /\ UNCHANGED <<popup, tries>>
         [] OTHER -> chain' = "client" /\ UNCHANGED <<popup, tries>>
    /\ UNCHANGED <<held, verified, capturing>>

(* A failed request, or a script that does not load. *)
StartFails ==
    /\ chain \in {"starting", "confirming", "declining"}
    /\ chain' = "none" /\ popup' = "idle"
    /\ inquiry' \in IF inquiry = "none" THEN {"none", "created"} ELSE {inquiry}
    /\ UNCHANGED <<held, verified, capturing, tries>>

Confirmed ==
    /\ chain = "confirming"
    /\ RefreshStatus
    /\ popup' = "success" /\ chain' = "celebrating"
    /\ UNCHANGED <<held, inquiry, capturing, tries>>

Declined ==
    /\ chain = "declining"
    /\ RefreshStatus
    /\ popup' = "idle" /\ chain' = "none"
    /\ UNCHANGED <<held, inquiry, capturing, tries>>

ClientReady ==
    /\ chain = "client" /\ Shown("launching")
    /\ popup' = "idle"
    /\ UNCHANGED <<held, inquiry, verified, capturing, chain, tries>>

ClientCompletes ==
    /\ chain = "client" /\ Shown("idle")
    /\ inquiry \notin {"none", "created"}
    /\ chain' = "polling" /\ popup' = "processing" /\ tries' = 0
    /\ UNCHANGED <<held, inquiry, verified, capturing>>

ClientCancelled ==
    /\ chain = "client" /\ Shown("idle")
    /\ RefreshStatus \/ UNCHANGED verified
    /\ chain' = "none"
    /\ UNCHANGED <<held, inquiry, popup, capturing, tries>>

ClientFails ==
    /\ chain = "client"
    /\ popup' = "idle" /\ chain' = "none"
    /\ UNCHANGED <<held, inquiry, verified, capturing, tries>>

(* One attempt of processCompletedInquiry; a request that fails counts. *)
MaxTries == 6

PollAnswered ==
    /\ chain = "polling" /\ tries < MaxTries
    /\ RefreshStatus
    /\ CASE inquiry = "approved" -> popup' = "success" /\ chain' = "celebrating" /\ UNCHANGED tries
         [] inquiry \in Over -> popup' = "idle" /\ chain' = "none" /\ UNCHANGED tries
         [] OTHER -> tries' = tries + 1 /\ UNCHANGED <<popup, chain>>
    /\ UNCHANGED <<held, inquiry, capturing>>

PollFailed ==
    /\ chain = "polling" /\ tries < MaxTries
    /\ tries' = tries + 1
    /\ UNCHANGED <<held, inquiry, verified, popup, chain, capturing>>

PollEnds ==
    /\ \/ chain = "polling" /\ tries = MaxTries
       \/ chain = "celebrating"
    /\ popup' = "idle" /\ chain' = "none"
    /\ UNCHANGED <<held, inquiry, verified, capturing, tries>>

PersonaNext ==
    \/ PersonaMoves \/ OpenIntro \/ NotNow \/ StartPersona
    \/ InquiryAnswered \/ StartFails \/ Confirmed \/ Declined
    \/ ClientReady \/ ClientCompletes \/ ClientCancelled \/ ClientFails
    \/ PollAnswered \/ PollFailed \/ PollEnds

-----------------------------------------------------------------------------
(* The page offers the capture only when Persona is not configured, so one *)
(* of the two moves in a behaviour.                                        *)
PageInit ==
    /\ held = {}
    /\ inquiry = "none" /\ verified = FALSE
    /\ view = "ready" /\ stage = 1 /\ frames = <<>>
    /\ camera = "off" /\ opening = {} /\ tracker = "off" /\ capture = Nothing
    /\ choosing = 0 /\ uploading = FALSE
    /\ popup = "idle" /\ chain = "none" /\ tries = 0

PageNext(configured) ==
    \/ configured /\ PersonaNext
    \/ ~configured /\ CaptureNext

PageSpec(configured) == PageInit /\ [][PageNext(configured)]_pagevars

-----------------------------------------------------------------------------
PageTypeOK ==
    /\ held \subseteq Kinds
    /\ inquiry \in {"none", "created", "pending", "approved"} \cup Passed \cup Over
    /\ verified \in BOOLEAN
    /\ view \in {"ready", "selfie", "document-choice", "document-front", "document-back", "scanning", "complete"}
    /\ stage \in 1..3 /\ Len(frames) <= MaxFrames
    /\ camera \in {"off", "on"} /\ opening \subseteq Kinds
    /\ tracker \in {"off", "loading", "on", "failed"}
    /\ choosing \in 0..MaxChoosing /\ uploading \in BOOLEAN
    /\ popup \in {"idle", "intro", "launching", "processing", "success"}
    /\ tries \in 0..MaxTries

(* What the page reports as done is done: "Identity evidence captured"     *)
(* means that the backend holds the selfie and both sides of a document,   *)
(* and Persona's success screen that Persona approved the inquiry,         *)
(* whatever was abandoned, retried or refused on the way.                  *)
ReportsTrue ==
    /\ CompleteView => held = Kinds
    /\ Shown("success") => inquiry = "approved"
=============================================================================
