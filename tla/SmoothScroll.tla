--------------------------- MODULE SmoothScroll ---------------------------
(***************************************************************************)
(* The scroll position of the dashboard over reloads: the inline script of *)
(* dashboard/src/app/layout.tsx and the component DesktopSmoothScroll.     *)
(*                                                                         *)
(* Everything here is a callback.  The script restores the position kept   *)
(* in the session storage while the document is still too short for it,    *)
(* again when the document is parsed and again in an animation frame, and  *)
(* hides the body meanwhile.  The component restores it once more when it  *)
(* is mounted, shows the body, keeps the position up to date from then on  *)
(* and, on a desktop, loads a scroll library, which comes late, after the  *)
(* component is gone, or never.  The browser's own part (the queue of      *)
(* animation frames, scroll events, clamping) is modelled as these files   *)
(* use it.  Positions are numbers of screens.                              *)
(***************************************************************************)
EXTENDS Integers, Sequences

CONSTANTS
  Base,        \* how far the page scrolls without any traffic
  Tall,        \* how far it can scroll when its lists are full
  MaxReloads,  \* bound of the model: how often the page is loaded again
  None

ASSUME ScrollAssumption ==
  /\ Base \in Nat /\ Tall \in Nat /\ Base <= Tall /\ MaxReloads \in Nat
  /\ None \notin Nat

\* The browser, and what the script and the component keep in it.
VARIABLES
  stored,     \* the position in the session storage, or None
  y,          \* window.scrollY
  height,     \* the largest position the page can be scrolled to
  parsed,     \* FALSE while document.readyState is "loading"
  restoring,  \* data-restoring-scroll: the body is not visible
  ready,      \* the class locomotive-ready
  frames,     \* callbacks waiting for an animation frame, oldest first
  moved       \* a scroll event is due

\* One load of the page.
VARIABLES
  target,     \* the script's y, 0 when it has nothing to restore
  stage,      \* "html", "laid" (layout effect run), "full" (mounted),
              \* "leaving" (layout effect undone), "gone" (unmounted)
  restored,   \* restoredScrollRef.current
  ticking,
  lib,        \* "none", "importing", "stopped", "started" or "destroyed"
  observing,  \* the ResizeObserver observes the body
  disposed,
  desktop     \* what the media queries say of this device

\* Histories.
VARIABLES
  left,       \* where the page was when it was last left, None if not known
  touched,    \* the user has scrolled since this load
  heard,      \* the component has heard a scroll event
  misused,    \* methods called on the destroyed library
  reloads

browser == <<y, height, moved>>
load == <<target, stage, restored, lib, observing, disposed>>
rest == <<desktop, left, reloads>>
vars == <<stored, browser, parsed, restoring, ready, frames, load, ticking,
          touched, heard, misused, rest>>

Callback == {"restore", "finish", "save", "start", "resize"}

Queued(f) == \E i \in DOMAIN frames : frames[i] = f

\* The layout effect's listeners are on.
Listening == stage \in {"laid", "full"}

\* window.scrollTo: no further than the page goes.
ScrollTo(p) ==
  /\ y' = IF p > height THEN height ELSE p
  /\ moved' = (moved \/ y' # y)
  /\ UNCHANGED height

Stay == UNCHANGED browser

\* The page becomes h long; it cannot stay scrolled further than that.
Becomes(h) ==
  /\ height' = h
  /\ y' = IF y > h THEN h ELSE y
  /\ moved' = (moved \/ y' # y)

-----------------------------------------------------------------------------
(* The document and its inline script.                                     *)

\* The script's y for the stored position s.
ScriptY(s) == IF s = None THEN 0 ELSE s

\* A new document runs its script: it is still empty, so that the first
\* restore() leaves it at the top, but it asks for two more.
Init ==
  /\ stored = None /\ y = 0 /\ height = 0 /\ moved = FALSE
  /\ parsed = FALSE /\ restoring = FALSE /\ ready = FALSE
  /\ frames = << >>
  /\ target = 0 /\ stage = "html" /\ restored = 0 /\ ticking = FALSE
  /\ lib = "none" /\ observing = FALSE /\ disposed = FALSE
  /\ desktop \in BOOLEAN
  /\ left = None /\ touched = FALSE /\ heard = FALSE /\ misused = {}
  /\ reloads = 0

\* Fault: leaving the page does not save.
FaultSavedOnLeave == stored

\* What beforeunload and pagehide leave in the storage.
SavedOnLeave == IF Listening THEN y ELSE stored

Reload ==
  /\ reloads < MaxReloads
  /\ reloads' = reloads + 1
  /\ left' = IF Listening THEN y ELSE left
  /\ stored' = SavedOnLeave
  /\ target' = ScriptY(stored')
  /\ restoring' = (target' > 0)
  /\ frames' = IF target' > 0 THEN <<"restore">> ELSE << >>
  /\ y' = 0 /\ height' = 0 /\ moved' = FALSE
  /\ parsed' = FALSE /\ ready' = FALSE
  /\ stage' = "html" /\ restored' = 0 /\ ticking' = FALSE
  /\ lib' = "none" /\ observing' = FALSE /\ disposed' = FALSE
  /\ touched' = FALSE /\ heard' = FALSE
  /\ UNCHANGED <<desktop, misused>>

\* The body's markup has come in.
Parse ==
  /\ stage = "html" /\ height < Base
  /\ Becomes(Base)
  /\ UNCHANGED <<stored, parsed, restoring, ready, frames, load, ticking,
                 touched, heard, misused, rest>>

DOMContentLoaded ==
  /\ ~parsed /\ (stage = "html" => height = Base)
  /\ parsed' = TRUE
  /\ IF target > 0 THEN ScrollTo(target) ELSE Stay
  /\ UNCHANGED <<stored, restoring, ready, frames, load, ticking,
                 touched, heard, misused, rest>>

-----------------------------------------------------------------------------
(* The layout effect.                                                      *)

readStoredScroll == IF stored = None THEN y ELSE stored

\* Fault: the body is only shown by the library.
FaultLayoutFrames == frames

\* The frames after finishScrollRestoration().
LayoutFrames == Append(frames, "finish")

LayoutEffect ==
  /\ stage = "html" /\ height = Base
  /\ stage' = "laid"
  /\ restored' = readStoredScroll
  /\ IF restored' > 0 THEN ScrollTo(restored') ELSE Stay
  /\ frames' = LayoutFrames
  /\ UNCHANGED <<stored, parsed, restoring, ready, target, lib, observing,
                 disposed, ticking, touched, heard, misused, rest>>

\* Fault: every event asks for a frame.
FaultUnthrottled ==
  /\ ticking' = TRUE
  /\ frames' = Append(frames, "save")
  /\ UNCHANGED stored

saveScrollSoon ==
  /\ ticking' = TRUE
  /\ frames' = IF ticking THEN frames ELSE Append(frames, "save")
  /\ UNCHANGED stored

\* The browser tells the listeners that the page was scrolled.
ScrollEvent ==
  /\ moved
  /\ moved' = FALSE
  /\ IF Listening THEN saveScrollSoon /\ heard' = TRUE
                  ELSE UNCHANGED <<stored, ticking, frames, heard>>
  /\ UNCHANGED <<y, height, parsed, restoring, ready, load, touched, misused, rest>>

\* visibilitychange, and pagehide without leaving.
Hide ==
  /\ Listening
  /\ stored' = y
  /\ UNCHANGED <<browser, parsed, restoring, ready, frames, load, ticking,
                 touched, heard, misused, rest>>

-----------------------------------------------------------------------------
(* The effect that brings in the scroll library.                           *)

Mount ==
  /\ stage = "laid"
  /\ stage' = "full"
  /\ lib' = IF desktop THEN "importing" ELSE "none"
  /\ UNCHANGED <<stored, browser, parsed, restoring, ready, frames, target,
                 restored, observing, disposed, ticking, touched, heard,
                 misused, rest>>

\* The library is set up, stopped, at the restored position.
SetUp ==
  /\ lib' = "stopped"
  /\ IF restored > 0 THEN ScrollTo(restored) ELSE Stay
  /\ frames' = frames \o <<"finish", "start">>
  /\ ready' = TRUE
  /\ observing' = TRUE

\* Fault: nobody looks whether the component is still there.
FaultImportDone ==
  /\ lib = "importing"
  /\ SetUp
  /\ UNCHANGED <<stored, parsed, restoring, target, stage, restored, disposed,
                 ticking, touched, heard, misused, rest>>

ImportDone ==
  /\ lib = "importing"
  /\ IF disposed THEN /\ lib' = "none"
                      /\ UNCHANGED <<browser, frames, ready, observing>>
                 ELSE SetUp
  /\ UNCHANGED <<stored, parsed, restoring, target, stage, restored, disposed,
                 ticking, touched, heard, misused, rest>>

\* The import, or the library's constructor, throws.
ImportFails ==
  /\ lib = "importing"
  /\ lib' = "none"
  /\ ready' = FALSE
  /\ UNCHANGED <<stored, browser, parsed, restoring, frames, target, stage,
                 restored, observing, disposed, ticking, touched, heard,
                 misused, rest>>

\* At most once per frame, and the frame before has run its callbacks.
ResizeObserved ==
  /\ observing /\ ~Queued("resize")
  /\ frames' = Append(frames, "resize")
  /\ UNCHANGED <<stored, browser, parsed, restoring, ready, load, ticking,
                 touched, heard, misused, rest>>

-----------------------------------------------------------------------------
(* Animation frames.  The callbacks of one frame run one after the other;  *)
(* here other events may come between them.                                *)

Call(method) == misused' = IF lib = "destroyed" THEN misused \cup {method} ELSE misused

Start ==
  IF disposed THEN UNCHANGED <<lib, misused>>
              ELSE Call("start") /\ lib' = "started"

\* Fault: when the page has become longer it is scrolled to the position again.
FaultResize == ScrollTo(restored) /\ Call("resize")

Resize == Stay /\ Call("resize")

\* Fault: ticking is not taken back.
FaultSave == stored' = y /\ UNCHANGED ticking

Save == stored' = y /\ ticking' = FALSE

Frame ==
  /\ frames # << >>
  /\ frames' = Tail(frames)
  /\ \/ /\ Head(frames) = "restore"
        /\ ScrollTo(target)
        /\ UNCHANGED <<stored, restoring, ticking, lib, misused>>
     \/ /\ Head(frames) = "finish"
        /\ restoring' = FALSE
        /\ UNCHANGED <<browser, stored, ticking, lib, misused>>
     \/ /\ Head(frames) = "save"
        /\ Save
        /\ UNCHANGED <<browser, restoring, lib, misused>>
     \/ /\ Head(frames) = "start"
        /\ Start
        /\ UNCHANGED <<browser, stored, restoring, ticking>>
     \/ /\ Head(frames) = "resize"
        /\ Resize
        /\ UNCHANGED <<stored, restoring, ticking, lib>>
  /\ UNCHANGED <<parsed, ready, target, stage, restored, observing, disposed,
                 touched, heard, rest>>

-----------------------------------------------------------------------------
(* The user, the traffic, and the end of the component.                    *)

Scroll(p) ==
  /\ p \in 0 .. height /\ p # y
  /\ touched' = TRUE
  /\ ScrollTo(p)
  /\ UNCHANGED <<stored, parsed, restoring, ready, frames, load, ticking,
                 heard, misused, rest>>

\* The lists of the dashboard grow, or are filtered.
Content(h) ==
  /\ stage = "full" /\ h # height
  /\ Becomes(h)
  /\ UNCHANGED <<stored, parsed, restoring, ready, frames, load, ticking,
                 touched, heard, misused, rest>>

\* The page has crashed (Dashboard!Animate): React undoes the layout effect
\* and removes the page.  A frame that is still to save then saves the top of
\* the page that shows the error.
UndoLayoutEffect ==
  /\ stage = "full"
  /\ stage' = "leaving"
  /\ stored' = y
  /\ left' = IF ticking THEN None ELSE y
  /\ Becomes(0)
  /\ UNCHANGED <<parsed, restoring, ready, frames, target, restored, lib,
                 observing, disposed, ticking, touched, heard, misused,
                 desktop, reloads>>

\* After that it undoes the other effect.
UndoMount ==
  /\ stage = "leaving"
  /\ stage' = "gone"
  /\ IF desktop THEN /\ disposed' = TRUE
                     /\ observing' = FALSE
                     /\ lib' = IF lib \in {"stopped", "started"} THEN "destroyed" ELSE lib
                     /\ ready' = FALSE
                ELSE UNCHANGED <<disposed, observing, lib, ready>>
  /\ UNCHANGED <<stored, browser, parsed, restoring, frames, target, restored,
                 ticking, touched, heard, misused, rest>>

Next ==
  \/ Reload \/ Parse \/ DOMContentLoaded
  \/ LayoutEffect \/ ScrollEvent \/ Hide
  \/ Mount \/ ImportDone \/ ImportFails \/ ResizeObserved \/ Frame
  \/ \E p \in 0 .. Tall : Scroll(p)
  \/ \E h \in Base .. Tall : Content(h)
  \/ UndoLayoutEffect \/ UndoMount

\* The markup comes in, React mounts the page, and a visible page gets its
\* frames.  The library need not come, and nobody need do anything.
Spec == Init /\ [][Next]_vars /\ WF_vars(Parse) /\ WF_vars(LayoutEffect) /\ WF_vars(Frame)

-----------------------------------------------------------------------------
(***************************************************************************)
(* The types.  The queue of frames is short because scroll events share    *)
(* one frame (ticking) and so do the observer's reports.                   *)
(***************************************************************************)
TypeOK ==
  /\ stored \in 0 .. Tall \cup {None}
  /\ y \in 0 .. height /\ height \in 0 .. Tall
  /\ {parsed, restoring, ready, moved, ticking, observing, disposed, desktop,
      touched, heard} \subseteq BOOLEAN
  /\ frames \in Seq(Callback) /\ Len(frames) <= 6
  /\ target \in 0 .. Tall /\ restored \in 0 .. Tall
  /\ stage \in {"html", "laid", "full", "leaving", "gone"}
  /\ lib \in {"none", "importing", "stopped", "started", "destroyed"}
  /\ left \in 0 .. Tall \cup {None}
  /\ misused \subseteq Callback
  /\ reloads \in 0 .. MaxReloads

(***************************************************************************)
(* As long as the user does not scroll, a page that is loaded again is     *)
(* where it was left, or as near as the page without traffic comes to it,  *)
(* whichever of the script's restores, the component's and the library's   *)
(* come before or after the others, and however often it was reloaded      *)
(* before it was mounted (layout.tsx:33-50, DesktopSmoothScroll.tsx:42-47, *)
(* 61-63 and 101-103).                                                     *)
(***************************************************************************)
RestoresPosition ==
  Listening /\ ~touched /\ left # None =>
    IF left <= Base THEN y = left ELSE y \in Base .. left

(***************************************************************************)
(* Throttling loses no position: when the events are dealt with, what is   *)
(* stored is where the page is, although events that come while a frame is *)
(* waiting are ignored (DesktopSmoothScroll.tsx:50-60).                    *)
(***************************************************************************)
SavesPosition ==
  Listening /\ heard /\ ~moved /\ ~Queued("save") => stored = y

(***************************************************************************)
(* When the component is gone so are the library, its class and its        *)
(* observer, whenever the import is done, and the frames that outlive the  *)
(* library do not start it again: only resize is ever called on it         *)
(* (DesktopSmoothScroll.tsx:86-126).                                       *)
(***************************************************************************)
LibraryGoesWithPage ==
  /\ stage = "gone" => lib \notin {"stopped", "started"} /\ ~ready /\ ~observing
  /\ misused \subseteq {"resize"}

\* Nothing is left that restores the position.
Settled == stage = "full" /\ parsed /\ lib # "importing" /\ ~Queued("restore")

(***************************************************************************)
(* Once the restoration is over, which includes the import of the library  *)
(* and the frame the script asked for, nothing but the user and the length *)
(* of the page moves it (DesktopSmoothScroll.tsx:101-115).                 *)
(***************************************************************************)
OnlyUserScrolls ==
  [][Settled /\ y' # y =>
       \/ \E p \in 0 .. Tall : Scroll(p)
       \/ \E h \in Base .. Tall : Content(h)
       \/ Reload \/ UndoLayoutEffect]_vars

(***************************************************************************)
(* A body hidden for the restoration is shown, whether or not the library  *)
(* ever comes (DesktopSmoothScroll.tsx:29-33, globals.css:38).             *)
(***************************************************************************)
PageIsShown == restoring ~> ~restoring
=============================================================================
