------------------------------ MODULE MCServer ------------------------------
(* Five components of the server, checked in one run and explored one at a *)
(* time: a behaviour picks one (part), and the others stay at their        *)
(* beginning.  The states add up, they do not multiply.                    *)
EXTENDS Uploads, Tokens, Capture, LayoutPass, RtcPeers

CONSTANTS u1, u2, r1, r2, c1, c2, o1, o2, watcher, page, revisit, viewer

\* Tokens: two sockets, a controller and a viewer slot that move.
Ctl(slot) == [role |-> "controller", slot |-> slot]
View(slot) == [role |-> "viewer", slot |-> slot]
MCGrants == {Ctl(1), Ctl(2), View(1), View(2)}
Table(first, second) == [c \in {c1, c2} |-> IF c = c1 THEN first ELSE second]
MCTables == {Table(Ctl(1), View(2)), Table(Ctl(2), View(1)),
             Table(View(1), NoGrant)}

\* LayoutPass: an aligned and an unaligned width, and a driver that realises
\* one that is too flat or one that is too narrow.
MCSizes == {Size(4, 4), Size(8, 4)}
MCFallbacks == {Size(8, 4), Size(4, 8)}

\* RtcPeers: a driver's page, its reload and a viewer.  A behaviour has pauses,
\* or a start that fails, or a revoked token or a dropped signaling socket.
Budget(t, f, d) == [toggles |-> t, failures |-> f, drops |-> d]
MCBudgets == {Budget(2, 0, 0), Budget(0, 1, 0), Budget(0, 0, 1)}

VARIABLE part

serverVars == <<part, uploadVars, tokenVars, captureVars, layoutVars,
                rtcVars>>

ServerInit ==
  /\ part \in {"uploads", "tokens", "capture", "layout", "peers"}
  /\ UploadsInit /\ TokensInit /\ CaptureInit /\ LayoutInit
  /\ RtcInit
  /\ part # "tokens" =>
       user_tokens = Table(Ctl(1), View(2)) /\ active_mk_token = NoSocket
  /\ part # "capture" => entry = NoOne
  /\ part # "layout" => root = Size(4, 4)
  /\ part # "peers" => budget = Budget(0, 0, 1)

ServerNext ==
  /\ UNCHANGED part
  /\ \/ /\ part = "uploads" /\ UploadsNext
        /\ UNCHANGED <<tokenVars, captureVars, layoutVars, rtcVars>>
     \/ /\ part = "tokens" /\ TokensNext
        /\ UNCHANGED <<uploadVars, captureVars, layoutVars, rtcVars>>
     \/ /\ part = "capture" /\ CaptureNext
        /\ UNCHANGED <<uploadVars, tokenVars, layoutVars, rtcVars>>
     \/ /\ part = "layout" /\ LayoutNext
        /\ UNCHANGED <<uploadVars, tokenVars, captureVars, rtcVars>>
     \/ /\ part = "peers" /\ RtcNext
        /\ UNCHANGED <<uploadVars, tokenVars, captureVars, layoutVars>>

ServerSpec == ServerInit /\ [][ServerNext]_serverVars
=============================================================================
