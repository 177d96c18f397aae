----------------------------- MODULE LayoutPass -----------------------------
(***************************************************************************)
(* One X server, a primary display and a secondary that comes and goes:    *)
(* the passes of _reconfigure_displays_locked over the published layout,   *)
(* the root window, the logical monitors and the regions that the live     *)
(* captures grab, while clients resize, pause, resume and leave.  The      *)
(* passes run one at a time and a request made meanwhile leads to one more *)
(* (Reconfigure); the primary's client stays (Capture has its departure)   *)
(* and no encoder changes, so that a live capture can always be kept.      *)
(***************************************************************************)
EXTENDS LayoutOps, FiniteSets

CONSTANTS Sizes,       \* what clients ask for
          Sides,       \* where a secondary may sit
          Fallbacks,   \* the sizes of root the driver may realise instead
          NoRegion, StopRequest,
          MaxChanges,  \* the clients' requests
          MaxRefusals  \* refusals by the X server or pixelflux

ASSUME LayoutAssumption ==
  /\ Sizes \subseteq Sized /\ Sizes # {} /\ Fallbacks \subseteq Sized
  /\ Sides \subseteq Positions /\ NoRegion \notin Rects
  /\ StopRequest \notin Rects \cup {NoRegion}
  /\ MaxChanges \in Nat /\ MaxRefusals \in Nat

VARIABLES screens,    \* display_clients: size, video_active; the secondary's side
          display_layouts,
          root,       \* the size of the root window
          selkies_monitors,
          regions,    \* what a display's live capture grabs
          asked,      \* per client: its STOP_VIDEO, or the region its
                      \* START_VIDEO read, until it has had the capture lock
          requested,  \* a pass is to run
          pass_at,    \* the step of the pass that runs; its sets of displays
          left,       \* changes and refusals that may still happen
          odd         \* what the properties except: early: captures that
                      \* START_VIDEO started from a layout not realised yet;
                      \* aborted: the last pass; unplaced: a secondary was
                      \* dropped after the monitors were set

layoutVars == <<screens, display_layouts, root, selkies_monitors, regions, asked,
                requested, pass_at, left, odd>>
requests == <<screens, asked, requested>>

NoPass == [step |-> "idle", todo |-> {}, keep |-> {}, moved |-> {}, ahead |-> {},
           found |-> Size(0, 0)]
Live == {d \in Displays : regions[d] # NoRegion}
Streams(d) == d \in DOMAIN screens /\ screens[d].active
Nothing == [d \in {} |-> NoRegion]

LayoutInit ==
  /\ \E s \in Sizes :
       /\ screens = [d \in {Primary} |-> [size |-> s, active |-> TRUE, side |-> "right"]]
       /\ root = s
  /\ display_layouts = Nothing /\ selkies_monitors = Nothing
  /\ regions = [d \in Displays |-> NoRegion]
  /\ asked = [d \in Displays |-> NoRegion]
  /\ requested = TRUE
  /\ pass_at = NoPass
  /\ left = [changes |-> MaxChanges, refusals |-> MaxRefusals]
  /\ odd = [early |-> {}, aborted |-> FALSE, unplaced |-> FALSE]

\* pixelflux pins a region to the root it finds, and it stays there.
Pinned(r) == IF Covers(root, r) THEN r
             ELSE Fitted([r EXCEPT !.x = Smaller(@, root.w - 2),
                                   !.y = Smaller(@, root.h - 2)], root)

Refuses == left.refusals > 0 /\ left' = [left EXCEPT !.refusals = @ - 1]
Enters(step) == pass_at' = [pass_at EXCEPT !.step = step]
-----------------------------------------------------------------------------
\* The clients.  Their handlers write the registry at once and ask for a pass.
Changes == left.changes > 0 /\ left' = [left EXCEPT !.changes = @ - 1]

Registers(d, entry) ==
  /\ Changes /\ requested' = TRUE
  /\ screens' = [e \in DOMAIN screens \cup {d} |-> IF e = d THEN entry ELSE screens[e]]
  /\ UNCHANGED <<display_layouts, root, selkies_monitors, regions, asked, pass_at, odd>>

\* A maximized primary may report the whole root.
Resizes(d) ==
  /\ d \in DOMAIN screens /\ asked[d] = NoRegion
  /\ \E s \in Sizes \cup (IF d = Primary THEN {root} ELSE {}) :
       s # screens[d].size /\ Registers(d, [screens[d] EXCEPT !.size = s])

Joins ==
  /\ Secondary \notin DOMAIN screens /\ asked[Secondary] = NoRegion
  /\ \E s \in Sizes, side \in Sides :
       Registers(Secondary, [size |-> s, active |-> TRUE, side |-> side])

\* Its grace has elapsed.
Leaves ==
  /\ Secondary \in DOMAIN screens /\ asked[Secondary] = NoRegion
  /\ screens' = [d \in {Primary} |-> screens[d]]
  /\ Changes /\ requested' = TRUE
  /\ UNCHANGED <<display_layouts, root, selkies_monitors, regions, asked, pass_at, odd>>

\* Nobody else watches its capture.
StopsVideo(d) ==
  /\ Streams(d) /\ asked[d] = NoRegion /\ Changes
  /\ screens' = [screens EXCEPT ![d].active = FALSE]
  /\ asked' = [asked EXCEPT ![d] = StopRequest]
  /\ UNCHANGED <<display_layouts, root, selkies_monitors, regions, requested, pass_at, odd>>

\* The layout is read before the lock is waited for.
StartsVideo(d) ==
  /\ d \in DOMAIN screens /\ asked[d] = NoRegion /\ Changes
  /\ Streams(d) => d \notin Live
  /\ screens' = [screens EXCEPT ![d].active = TRUE]
  /\ IF d \in DOMAIN display_layouts
     THEN asked' = [asked EXCEPT ![d] = display_layouts[d]] /\ UNCHANGED requested
     ELSE requested' = TRUE /\ UNCHANGED asked
  /\ UNCHANGED <<display_layouts, root, selkies_monitors, regions, pass_at, odd>>

\* The region is the display's, in a root that is as it will be.
Realised(d, r) ==
  /\ pass_at.step \in {"idle", "stop", "start", "weed"} /\ ~odd.aborted
  /\ d \in DOMAIN display_layouts /\ display_layouts[d] = r

Silenced(stopped) ==
  /\ regions' = [d \in Displays |-> IF d \in stopped THEN NoRegion ELSE regions[d]]
  /\ odd' = [odd EXCEPT !.early = @ \ stopped]

\* The pass holds the lock while it judges; who asked before goes first.
LockFree(d) == pass_at.step = "judge" => d \in pass_at.ahead

\* A start that fails asks for a pass.
StoppedOrStarted(d) ==
  /\ asked[d] # NoRegion /\ LockFree(d)
  /\ asked' = [asked EXCEPT ![d] = NoRegion]
  /\ pass_at' = [pass_at EXCEPT !.ahead = @ \ {d}]
  /\ \/ /\ asked[d] = StopRequest
        /\ Silenced({d}) /\ UNCHANGED <<requested, left>>
     \/ /\ asked[d] # StopRequest /\ d \in Live
        /\ UNCHANGED <<regions, requested, left, odd>>
     \/ /\ asked[d] # StopRequest /\ d \notin Live
        /\ regions' = [regions EXCEPT ![d] = Pinned(asked[d])]
        /\ odd' = IF Realised(d, asked[d]) THEN odd
                  ELSE [odd EXCEPT !.early = @ \cup {d}]
        /\ UNCHANGED <<requested, left>>
     \/ /\ asked[d] # StopRequest /\ d \notin Live
        /\ Refuses /\ requested' = TRUE /\ UNCHANGED <<regions, odd>>
  /\ UNCHANGED <<screens, display_layouts, root, selkies_monitors>>
-----------------------------------------------------------------------------
\* A pass.  It lays out the clients and publishes that before it is real.
Side == screens[Secondary].side

LaidOut ==
  IF Secondary \notin DOMAIN screens
  THEN [d \in {Primary} |-> Rect(0, 0, screens[Primary].size)]
  ELSE compute_dual_layout(
         clamp_primary_feedback(screens[Primary].size, display_layouts, Side),
         screens[Secondary].size, Side)

\* total_width and total_height.
Total == LET extent == layout_extent(display_layouts)
         IN Size(Aligned(extent.w), extent.h)

Begins ==
  /\ pass_at.step = "idle" /\ requested
  /\ requested' = FALSE
  /\ display_layouts' = LaidOut
  /\ pass_at' = [NoPass EXCEPT !.step = "judge", !.todo = Displays,
                             !.ahead = {d \in Displays : asked[d] # NoRegion}]
  /\ odd' = [odd EXCEPT !.aborted = FALSE, !.unplaced = FALSE]
  /\ UNCHANGED <<screens, root, selkies_monitors, regions, asked, left>>

Judges(d) ==
  LET kept == d \in Live /\ d \in DOMAIN display_layouts /\ Streams(d) IN
  /\ pass_at.step = "judge" /\ pass_at.ahead = {} /\ d \in pass_at.todo
  /\ pass_at' = [pass_at EXCEPT !.todo = @ \ {d},
                    !.keep = IF kept THEN @ \cup {d} ELSE @,
                    !.step = IF pass_at.todo = {d} THEN "mode" ELSE @]
  /\ Silenced(IF kept THEN {} ELSE {d})
  /\ UNCHANGED <<requests, display_layouts, root, selkies_monitors, left>>

Aborts ==
  /\ pass_at' = NoPass
  /\ odd' = [odd EXCEPT !.aborted = TRUE]
  /\ UNCHANGED <<requests, display_layouts, root, selkies_monitors>>

ModeUnmade == pass_at.step = "mode" /\ Refuses /\ Aborts /\ UNCHANGED regions

\* The root as it is, and the mode of the total, which may have to be made.
FindsMode ==
  /\ pass_at.step = "mode"
  /\ pass_at' = [pass_at EXCEPT !.found = root,
                                !.step = IF pass_at.keep = {} THEN "swap" ELSE "grow"]
  /\ UNCHANGED <<requests, display_layouts, root, selkies_monitors, regions, left, odd>>

\* (Mutant of Union: only the new regions count.)
Union_Total == Total

\* Before live captures move, the root covers their old and their new regions.
Union == Size(Larger(pass_at.found.w, Total.w), Larger(pass_at.found.h, Total.h))

\* (Mutant of Grows: a pure grow is left to the mode-set.)
Grows_NotToTotal ==
  /\ pass_at.step = "grow" /\ UNCHANGED left
  /\ root' = IF Union = Total THEN root ELSE Union
  /\ Enters("move")
  /\ UNCHANGED <<requests, display_layouts, selkies_monitors, regions, odd>>

Grows ==
  /\ pass_at.step = "grow" /\ UNCHANGED left
  /\ root' = Union
  /\ Enters("move")
  /\ UNCHANGED <<requests, display_layouts, selkies_monitors, regions, odd>>

\* The captures whose new region is beyond the root will be started again.
GrowRefused ==
  /\ pass_at.step = "grow" /\ Union # root /\ Refuses
  /\ pass_at' = [pass_at EXCEPT !.step = "shed",
                    !.todo = {d \in pass_at.keep : ~Covers(root, display_layouts[d])}]
  /\ UNCHANGED <<requests, display_layouts, root, selkies_monitors, regions, odd>>

Sheds ==
  /\ pass_at.step = "shed"
  /\ \/ \E d \in pass_at.todo :
          /\ Silenced({d})
          /\ pass_at' = [pass_at EXCEPT !.todo = @ \ {d}, !.keep = @ \ {d}]
     \/ pass_at.todo = {} /\ Enters("move") /\ UNCHANGED <<regions, odd>>
  /\ UNCHANGED <<requests, display_layouts, root, selkies_monitors, left>>

\* A kept capture that a STOP_VIDEO took away meanwhile ends the pass; the
\* secondary ("display2") comes before the primary.
Moves ==
  /\ pass_at.step = "move" /\ pass_at.keep \subseteq Live
  /\ regions' = [d \in Displays |-> IF d \in pass_at.keep
                                    THEN Pinned(display_layouts[d]) ELSE regions[d]]
  /\ odd' = [odd EXCEPT !.early = @ \ pass_at.keep]
  /\ Enters("swap")
  /\ UNCHANGED <<requests, display_layouts, root, selkies_monitors, left>>

MovesNoMore ==
  /\ pass_at.step = "move" /\ ~(pass_at.keep \subseteq Live)
  /\ regions' = IF Secondary \in pass_at.keep \cap Live
                THEN [regions EXCEPT ![Secondary] = Pinned(display_layouts[Secondary])]
                ELSE regions
  /\ Aborts /\ UNCHANGED left

\* update_capture_region raises.
MoveFails ==
  /\ pass_at.step = "move" /\ pass_at.keep \subseteq Live /\ Refuses
  /\ \E d \in pass_at.keep :
       /\ Silenced({d})
       /\ pass_at' = [pass_at EXCEPT !.keep = @ \ {d}]
  /\ UNCHANGED <<requests, display_layouts, root, selkies_monitors>>

Swaps ==
  /\ pass_at.step = "swap"
  /\ selkies_monitors' = display_layouts
  /\ Enters(IF pass_at.found = Total THEN "fit" ELSE "set")
  /\ UNCHANGED <<requests, display_layouts, root, regions, left, odd>>
-----------------------------------------------------------------------------
\* The mode-set, or a plain grow, or neither.
Sets ==
  /\ pass_at.step = "set"
  /\ \/ root' = Total /\ UNCHANGED left
     \/ root' \in Fallbacks \cup {root} /\ Refuses
  /\ Enters("fit")
  /\ UNCHANGED <<requests, display_layouts, selkies_monitors, regions, odd>>

\* The realized size is read and the layout fitted to it.
Fits ==
  LET again == Reanchored(display_layouts, root)
      moved == Clamped(display_layouts, root)
      gone == Dropped(display_layouts, root)
  IN
  /\ pass_at.step = "fit"
  /\ IF root = Total
     THEN /\ pass_at' = [pass_at EXCEPT !.step = "start", !.todo = DOMAIN display_layouts]
          /\ UNCHANGED display_layouts
     ELSE /\ display_layouts' = reconcile_realized_layout(display_layouts, root)
          /\ pass_at' = [pass_at EXCEPT !.step = "stop", !.moved = moved,
                !.todo = gone \cup (IF again THEN {Primary} \cap pass_at.keep ELSE {})]
  /\ UNCHANGED <<requests, root, selkies_monitors, regions, left, odd>>

\* A re-anchored primary is started again, a dropped secondary told to go.
StopsMisplaced ==
  /\ pass_at.step = "stop"
  /\ \E d \in pass_at.todo :
       /\ Silenced({d})
       /\ pass_at' = [pass_at EXCEPT !.todo = @ \ {d}, !.keep = @ \ {d}]
  /\ UNCHANGED <<requests, display_layouts, root, selkies_monitors, left>>

\* The clamped ones are told their size and moved; the monitors follow.
Clamps ==
  LET here == pass_at.moved \cap pass_at.keep \cap Live IN
  /\ pass_at.step = "stop" /\ pass_at.todo = {}
  /\ screens' = [d \in DOMAIN screens |->
       IF d \in pass_at.moved
       THEN [screens[d] EXCEPT !.size = Size(display_layouts[d].w, display_layouts[d].h)]
       ELSE screens[d]]
  /\ regions' = [d \in Displays |-> IF d \in here THEN Pinned(display_layouts[d])
                                    ELSE regions[d]]
  /\ odd' = [odd EXCEPT !.early = @ \ here]
  /\ selkies_monitors' = display_layouts
  /\ pass_at' = [pass_at EXCEPT !.step = "start", !.todo = DOMAIN display_layouts]
  /\ UNCHANGED <<display_layouts, root, asked, requested, left>>

\* The start loop, the primary first.  A live capture is left as it is.
Starts(d) ==
  /\ pass_at.step = "start" /\ d \in pass_at.todo
  /\ d = Secondary => Primary \notin pass_at.todo
  /\ IF Streams(d) /\ d \notin pass_at.keep \cup Live
     THEN \/ regions' = [regions EXCEPT ![d] = Pinned(display_layouts[d])] /\ UNCHANGED left
          \/ Refuses /\ UNCHANGED regions
     ELSE UNCHANGED <<left, regions>>
  /\ pass_at' = [pass_at EXCEPT !.todo = @ \ {d},
                    !.step = IF pass_at.todo = {d} THEN "weed" ELSE @]
  /\ UNCHANGED <<requests, display_layouts, root, selkies_monitors, odd>>

\* A secondary that should stream and does not is dropped; a start of it that
\* has the lock meanwhile is stopped after it.
Weeds ==
  LET out == {Secondary} \cap DOMAIN display_layouts IN
  /\ pass_at.step = "weed"
  /\ pass_at' = NoPass
  /\ IF \E d \in out : Streams(d) /\ d \notin Live
     THEN /\ display_layouts' = [d \in DOMAIN display_layouts \ out |-> display_layouts[d]]
          /\ screens' = [d \in DOMAIN screens \ out |-> screens[d]]
          /\ asked' = [asked EXCEPT ![Secondary] = NoRegion]
          /\ odd' = [odd EXCEPT !.unplaced = TRUE]
     ELSE UNCHANGED <<display_layouts, screens, asked, odd>>
  /\ UNCHANGED <<root, selkies_monitors, regions, requested, left>>

LayoutNext ==
  \/ Joins \/ Leaves \/ Begins \/ ModeUnmade \/ FindsMode \/ Grows \/ GrowRefused
  \/ Sheds \/ Moves \/ MovesNoMore \/ MoveFails \/ Swaps \/ Sets \/ Fits
  \/ StopsMisplaced \/ Clamps \/ Weeds
  \/ \E d \in Displays : \/ Resizes(d) \/ StopsVideo(d) \/ StartsVideo(d)
                         \/ StoppedOrStarted(d) \/ Judges(d) \/ Starts(d)

LayoutSpec == LayoutInit /\ [][LayoutNext]_layoutVars
-----------------------------------------------------------------------------
LayoutSettled == /\ pass_at.step = "idle" /\ ~requested /\ ~odd.aborted
                 /\ \A d \in Displays : asked[d] = NoRegion

\* When every pass asked for is over, whatever was refused on the way, the
\* displays lie side by side inside the root the X server has, the monitors
\* are where the displays are, and every capture grabs what was announced for
\* its display.  Excepted: a pass that was aborted, a capture that
\* START_VIDEO began from a layout not realised yet, and the monitor of a
\* secondary that was dropped because its capture did not start.
DesktopRealised ==
  LayoutSettled =>
    /\ \A d \in DOMAIN display_layouts : Covers(root, display_layouts[d])
    /\ \A d, e \in DOMAIN display_layouts :
         d # e => Apart(display_layouts[d], display_layouts[e])
    /\ ~odd.unplaced => selkies_monitors = display_layouts
    /\ \A d \in Live \ odd.early :
         d \in DOMAIN display_layouts /\ regions[d] = display_layouts[d]

\* "No region ever lies outside the root" (display_utils.py:1039-1040): the
\* capture thread would die of it.  Excepted: between a mode-set that realised
\* another size and the clamp that answers it, and early captures.
RegionsInRoot ==
  pass_at.step \notin {"fit", "stop"} =>
    \A d \in Live \ odd.early : Covers(root, regions[d])
=============================================================================
