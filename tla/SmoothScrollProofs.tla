------------------------- MODULE SmoothScrollProofs -------------------------
(***************************************************************************)
(* Theorems about SmoothScroll, for pages of any length, loaded any number *)
(* of times.                                                               *)
(*                                                                         *)
(* RestoresPosition speaks of the position the page had in the load before *)
(* and the code knows only what is stored: the invariant follows that      *)
(* position from the storage (Kept) to the script's y and the component's  *)
(* restoredScrollRef (Aimed), which four callbacks read after the storage  *)
(* may have changed.  SavesPosition rests on ticking, which says whether a *)
(* frame that saves is waiting, and that on how often each callback can    *)
(* wait for a frame (Waiting).                                             *)
(***************************************************************************)
EXTENDS SmoothScroll, SequenceTheorems, TLAPS

\* f waits in the queue q; at most one f does; at most two do.
Has(q, f) == \E i \in DOMAIN q : q[i] = f
Single(q, f) == \A i, j \in DOMAIN q : q[i] = f /\ q[j] = f => i = j
Double(q, f) == \A i, j, k \in DOMAIN q :
                  q[i] = f /\ q[j] = f /\ q[k] = f => i = j \/ j = k \/ i = k

\* How often each callback waits for a frame.
Waiting ==
  /\ \A f \in Callback \ {"finish"} : Single(frames, f)
  /\ Double(frames, "finish")
  /\ ticking <=> Has(frames, "save")
  /\ stage = "html" => \A f \in Callback \ {"restore"} : ~Has(frames, f)
  /\ lib \in {"none", "importing"} => Single(frames, "finish") /\ ~Has(frames, "start")

\* The life of the library within that of the component.
Library ==
  /\ stage \in {"html", "laid"} => lib = "none" /\ ~observing /\ ~ready
  /\ ~desktop => lib = "none" /\ ~observing /\ ~ready
  /\ disposed <=> stage = "gone" /\ desktop
  /\ observing => lib \in {"stopped", "started"}
  /\ lib = "destroyed" => disposed
  /\ lib = "importing" => ~ready

\* How long the page is.
Length ==
  /\ stage = "html" => height <= Base /\ ~heard
  /\ Listening => height >= Base

\* While the component does not listen nothing overwrites what was stored
\* when the page was left.
Kept ==
  /\ ~Listening /\ left # None => stored = left /\ ~Has(frames, "save")
  /\ stage = "html" => target = ScriptY(stored)
  /\ stage = "html" /\ ~touched /\ target = 0 => y = 0

\* Once it listens, whoever still restores restores the same position.
Aimed == Listening /\ left # None => target = left /\ restored = left

\* TypeOK but for the length of the queue.
Bounds ==
  /\ stored \in 0 .. Tall \cup {None}
  /\ y \in 0 .. height /\ height \in 0 .. Tall
  /\ {parsed, restoring, ready, moved, ticking, observing, disposed, desktop,
      touched, heard} \subseteq BOOLEAN
  /\ frames \in Seq(Callback)
  /\ target \in 0 .. Tall /\ restored \in 0 .. Tall
  /\ stage \in {"html", "laid", "full", "leaving", "gone"}
  /\ lib \in {"none", "importing", "stopped", "started", "destroyed"}
  /\ left \in 0 .. Tall \cup {None}
  /\ misused \subseteq Callback
  /\ reloads \in 0 .. MaxReloads

\* The inductive invariant.
Inv ==
  /\ Bounds
  /\ Waiting
  /\ Library
  /\ Length
  /\ Kept
  /\ Aimed
  /\ RestoresPosition
  /\ SavesPosition
  /\ LibraryGoesWithPage

-----------------------------------------------------------------------------
(* The queue of frames.                                                    *)

\* A callback is added.
LEMMA AppendFacts ==
  ASSUME NEW q \in Seq(Callback), NEW f \in Callback
  PROVE  /\ Append(q, f) \in Seq(Callback)
         /\ \A g : Has(Append(q, f), g) <=> Has(q, g) \/ g = f
         /\ \A g : Single(q, g) /\ (g # f \/ ~Has(q, f)) => Single(Append(q, f), g)
         /\ \A g : Double(q, g) /\ (g # f \/ Single(q, f)) => Double(Append(q, f), g)
<1>1. /\ Append(q, f) \in Seq(Callback)
      /\ Len(q) \in Nat /\ DOMAIN q = 1 .. Len(q)
      /\ DOMAIN Append(q, f) = 1 .. Len(q) + 1
      /\ \A i \in DOMAIN q : Append(q, f)[i] = q[i]
      /\ Append(q, f)[Len(q) + 1] = f
  BY AppendProperties
<1>2. \A g : Has(Append(q, f), g) <=> Has(q, g) \/ g = f
  BY <1>1 DEF Has
<1>3. \A g : Single(q, g) /\ (g # f \/ ~Has(q, f)) => Single(Append(q, f), g)
  BY <1>1 DEF Has, Single
<1>4. \A g : Double(q, g) /\ (g # f \/ Single(q, f)) => Double(Append(q, f), g)
  BY <1>1 DEF Single, Double
<1> QED BY <1>1, <1>2, <1>3, <1>4

\* The oldest callback is taken.
LEMMA TailFacts ==
  ASSUME NEW q \in Seq(Callback), q # << >>
  PROVE  /\ Head(q) \in Callback /\ Tail(q) \in Seq(Callback)
         /\ Has(q, Head(q))
         /\ \A g : Has(Tail(q), g) => Has(q, g)
         /\ \A g : Has(q, g) /\ g # Head(q) => Has(Tail(q), g)
         /\ Single(q, Head(q)) => ~Has(Tail(q), Head(q))
         /\ \A g : Single(q, g) => Single(Tail(q), g)
         /\ \A g : Double(q, g) => Double(Tail(q), g)
<1>1. /\ Len(q) \in Nat \ {0} /\ DOMAIN q = 1 .. Len(q)
      /\ Head(q) = q[1] /\ Head(q) \in Callback
      /\ Tail(q) \in Seq(Callback)
      /\ DOMAIN Tail(q) = 1 .. Len(q) - 1
      /\ \A i \in 1 .. Len(q) - 1 : Tail(q)[i] = q[i + 1]
  BY HeadTailProperties, EmptySeq
<1>2. Has(q, Head(q))
  BY <1>1 DEF Has
<1>3. \A g : Has(Tail(q), g) => Has(q, g)
  BY <1>1 DEF Has
<1>4. ASSUME NEW g, Has(q, g), g # Head(q)
      PROVE  Has(Tail(q), g)
  <2>1. PICK i \in DOMAIN q : q[i] = g
    BY <1>4 DEF Has
  <2>2. i - 1 \in 1 .. Len(q) - 1 /\ Tail(q)[i - 1] = g
    BY <1>1, <1>4, <2>1
  <2> QED BY <1>1, <2>2 DEF Has
<1>5. Single(q, Head(q)) => ~Has(Tail(q), Head(q))
  BY <1>1 DEF Single, Has
<1>6. \A g : Single(q, g) => Single(Tail(q), g)
  BY <1>1 DEF Single
<1>7. \A g : Double(q, g) => Double(Tail(q), g)
  BY <1>1 DEF Double
<1> QED BY <1>1, <1>2, <1>3, <1>4, <1>5, <1>6, <1>7

\* Seven callbacks of five kinds do not fit.
LEMMA Short ==
  ASSUME NEW q \in Seq(Callback), \A f \in Callback \ {"finish"} : Single(q, f),
         Double(q, "finish")
  PROVE  Len(q) <= 6
<1> SUFFICES ASSUME Len(q) >= 7 PROVE FALSE
  OBVIOUS
<1>1. /\ 1 .. 7 \subseteq DOMAIN q
      /\ \A i \in DOMAIN q : q[i] \in Callback
  OBVIOUS
<1>2. \A i, j \in DOMAIN q : q[i] = q[j] /\ i # j => q[i] = "finish"
  BY <1>1 DEF Single
<1>3. \A i, j, k \in DOMAIN q :
        q[i] = "finish" /\ q[j] = "finish" /\ q[k] = "finish" => i = j \/ j = k \/ i = k
  BY DEF Double
<1>4. PICK a, b \in 1 .. 7 :
        \A i \in 1 .. 7 : q[i] = "finish" => i = a \/ i = b
  BY <1>1, <1>3
<1>5. \A f \in Callback \ {"finish"} :
        \E c \in 1 .. 7 : \A i \in 1 .. 7 : q[i] = f => i = c
  BY <1>1, <1>2
<1>6. PICK c \in 1 .. 7 : \A i \in 1 .. 7 : q[i] = "restore" => i = c
  BY <1>5 DEF Callback
<1>7. PICK d \in 1 .. 7 : \A i \in 1 .. 7 : q[i] = "save" => i = d
  BY <1>5 DEF Callback
<1>8. PICK e \in 1 .. 7 : \A i \in 1 .. 7 : q[i] = "start" => i = e
  BY <1>5 DEF Callback
<1>9. PICK g \in 1 .. 7 : \A i \in 1 .. 7 : q[i] = "resize" => i = g
  BY <1>5 DEF Callback
<1>10. \A i \in 1 .. 7 : i = a \/ i = b \/ i = c \/ i = d \/ i = e \/ i = g
  BY <1>1, <1>4, <1>6, <1>7, <1>8, <1>9 DEF Callback
<1> QED BY <1>10

-----------------------------------------------------------------------------
(* The numbers.                                                            *)

\* The page is scrolled: at most to its end, and not unnoticed.
LEMMA ScrollToFacts ==
  ASSUME Bounds, NEW p \in 0 .. Tall, ScrollTo(p)
  PROVE  /\ height' = height /\ y' \in 0 .. height'
         /\ moved' \in BOOLEAN
         /\ y' # y \/ moved => moved'
         /\ y' = IF p > height THEN height ELSE p
<1>1. height' = height /\ y' = IF p > height THEN height ELSE p
  BY DEF ScrollTo
<1>2. y' \in 0 .. height'
  BY <1>1, ScrollAssumption DEF Bounds
<1>3. moved' = (moved \/ y' # y)
  BY DEF ScrollTo
<1> QED BY <1>1, <1>2, <1>3

\* The page becomes longer or shorter.
LEMMA BecomesFacts ==
  ASSUME Bounds, NEW h \in 0 .. Tall, Becomes(h)
  PROVE  /\ height' = h /\ y' \in 0 .. height'
         /\ moved' \in BOOLEAN
         /\ y' # y \/ moved => moved'
         /\ y' = IF y > h THEN h ELSE y
<1>1. height' = h /\ y' = IF y > h THEN h ELSE y
  BY DEF Becomes
<1>2. y' \in 0 .. height'
  BY <1>1, ScrollAssumption DEF Bounds
<1>3. moved' = (moved \/ y' # y)
  BY DEF Becomes
<1> QED BY <1>1, <1>2, <1>3

\* The types, but for the frames that wait.
LEMMA BoundsNext ==
  ASSUME Bounds, [Next]_vars
  PROVE  Bounds'
<1> USE ScrollAssumption DEF Bounds, browser, load, rest
<1>1. CASE Reload
  <2>1. /\ stored' \in 0 .. Tall \cup {None} /\ left' \in 0 .. Tall \cup {None}
        /\ y' = 0 /\ height' = 0 /\ target' \in 0 .. Tall /\ restored' = 0
        /\ reloads' \in 0 .. MaxReloads
    BY <1>1 DEF Reload, SavedOnLeave, ScriptY, Listening
  <2>2. restoring' \in BOOLEAN
    BY <1>1 DEF Reload
  <2>3. frames' \in Seq(Callback)
    <3>1. frames' = << >> \/ frames' = <<"restore">>
      BY <1>1 DEF Reload
    <3>2. << >> \in Seq(Callback) /\ <<"restore">> \in Seq(Callback)
      BY DEF Callback
    <3> QED BY <3>1, <3>2 DEF Callback
  <2>4. /\ {parsed', restoring', ready', moved', ticking', observing', disposed', desktop',
            touched', heard'} \subseteq BOOLEAN
        /\ misused' \subseteq Callback
    BY <1>1, <2>2 DEF Reload
  <2>5. /\ stage' \in {"html", "laid", "full", "leaving", "gone"}
        /\ lib' \in {"none", "importing", "stopped", "started", "destroyed"}
    BY <1>1 DEF Reload
  <2> QED BY <2>1, <2>2, <2>3, <2>4, <2>5
<1>2. CASE Parse
  BY <1>2, BecomesFacts DEF Parse
<1>3. CASE DOMContentLoaded
  BY <1>3, ScrollToFacts DEF DOMContentLoaded, Stay
<1>4. CASE LayoutEffect
  <2>1. restored' \in 0 .. Tall
    BY <1>4 DEF LayoutEffect, readStoredScroll
  <2>2. height' = height /\ y' \in 0 .. height' /\ moved' \in BOOLEAN
    BY <1>4, <2>1, ScrollToFacts DEF LayoutEffect, Stay
  <2>3. frames' \in Seq(Callback)
    BY <1>4, AppendFacts DEF LayoutEffect, LayoutFrames, Callback
  <2> QED BY <1>4, <2>1, <2>2, <2>3 DEF LayoutEffect
<1>5. CASE ScrollEvent
  <2>1. frames' \in Seq(Callback)
    BY <1>5, AppendFacts DEF ScrollEvent, saveScrollSoon, Callback
  <2>2. ticking' \in BOOLEAN /\ heard' \in BOOLEAN /\ moved' \in BOOLEAN
    BY <1>5 DEF ScrollEvent, saveScrollSoon
  <2> QED BY <1>5, <2>1, <2>2 DEF ScrollEvent, saveScrollSoon
<1>6. CASE Hide \/ Mount \/ ImportFails \/ UndoMount
  <2>1. CASE Hide
    BY <2>1 DEF Hide
  <2>2. CASE Mount
    BY <2>2 DEF Mount
  <2>3. CASE ImportFails
    BY <2>3 DEF ImportFails
  <2>4. CASE UndoMount
    BY <2>4 DEF UndoMount
  <2> QED BY <1>6, <2>1, <2>2, <2>3, <2>4
<1>7. CASE ImportDone
  <2>1. height' = height /\ y' \in 0 .. height' /\ moved' \in BOOLEAN
    BY <1>7, ScrollToFacts DEF ImportDone, SetUp, Stay
  <2>2. frames' \in Seq(Callback)
    BY <1>7 DEF ImportDone, SetUp, Callback
  <2> QED BY <1>7, <2>1, <2>2 DEF ImportDone, SetUp
<1>8. CASE ResizeObserved
  BY <1>8 DEF ResizeObserved, Callback
<1>9. CASE Frame
  <2>1. height' = height /\ y' \in 0 .. height' /\ moved' \in BOOLEAN
    BY <1>9, ScrollToFacts DEF Frame, Resize, Stay
  <2>2. frames' \in Seq(Callback)
    BY <1>9, TailFacts DEF Frame
  <2>3. stored' \in {stored, y} /\ ticking' \in {ticking, FALSE} /\ restoring' \in {restoring, FALSE}
    BY <1>9, Zenon DEF Frame, Save
  <2>4. misused' \subseteq Callback /\ lib' \in {"none", "importing", "stopped", "started", "destroyed"}
    BY <1>9 DEF Frame, Start, Resize, Call, Callback
  <2>5. /\ UNCHANGED <<parsed, ready, target, stage, restored, observing, disposed,
                       touched, heard, desktop, left, reloads>>
        /\ stored' \in 0 .. Tall \cup {None}
    BY <1>9, <2>3 DEF Frame
  <2>6. {parsed', restoring', ready', moved', ticking', observing', disposed', desktop',
         touched', heard'} \subseteq BOOLEAN
    BY <2>1, <2>3, <2>5
  <2> QED BY <2>1, <2>2, <2>4, <2>5, <2>6
<1>10. CASE \E p \in 0 .. Tall : Scroll(p)
  BY <1>10, ScrollToFacts DEF Scroll
<1>11. CASE \E h \in Base .. Tall : Content(h)
  BY <1>11, BecomesFacts DEF Content
<1>12. CASE UndoLayoutEffect
  BY <1>12, BecomesFacts DEF UndoLayoutEffect
<1>13. CASE UNCHANGED vars
  BY <1>13 DEF vars
<1> QED BY <1>1, <1>2, <1>3, <1>4, <1>5, <1>6, <1>7, <1>8, <1>9, <1>10, <1>11, <1>12, <1>13 DEF Next

-----------------------------------------------------------------------------
(* The queue.                                                              *)

\* How often each callback waits for a frame.
LEMMA WaitingNext ==
  ASSUME Bounds, Waiting, Library, [Next]_vars
  PROVE  Waiting'
<1> USE DEF Bounds
<1>1. CASE Reload
  <2>1. frames' = <<"restore">> \/ frames' = << >>
    BY <1>1 DEF Reload
  <2>2. /\ \A f : Single(frames', f) /\ Double(frames', f)
        /\ \A f : Has(frames', f) => f = "restore"
    BY <2>1 DEF Single, Double, Has
  <2> QED BY <1>1, <2>2 DEF Reload, Waiting, Callback
<1>2. CASE LayoutEffect
  <2>1. frames' = Append(frames, "finish") /\ stage = "html" /\ stage' = "laid"
        /\ UNCHANGED <<ticking, lib>> /\ "finish" \in Callback
    BY <1>2 DEF LayoutEffect, LayoutFrames, load, Callback
  <2>2. ~Has(frames, "finish") /\ \A f \in Callback : Single(frames, f)
    BY <2>1 DEF Waiting, Callback, Single, Has
  <2> QED BY <2>1, <2>2, AppendFacts DEF Waiting, Library
<1>3. CASE ScrollEvent
  <2>1. CASE Listening /\ ~ticking
    <3>1. /\ frames' = Append(frames, "save") /\ ticking' /\ stage # "html"
          /\ UNCHANGED <<stage, lib>> /\ "save" \in Callback
      BY <1>3, <2>1 DEF ScrollEvent, saveScrollSoon, Listening, load, Callback
    <3> QED BY <2>1, <3>1, AppendFacts DEF Waiting
  <2>2. CASE ~(Listening /\ ~ticking)
    <3>1. UNCHANGED <<frames, stage, lib, ticking>>
      BY <1>3, <2>2 DEF ScrollEvent, saveScrollSoon, load
    <3> QED BY <3>1 DEF Waiting
  <2> QED BY <2>1, <2>2
<1>4. CASE ImportDone
  <2>1. CASE disposed
    BY <1>4, <2>1 DEF ImportDone, Waiting
  <2>2. CASE ~disposed
    <3> DEFINE q == Append(frames, "finish")
    <3>1. /\ frames' = Append(q, "start") /\ lib = "importing" /\ lib' = "stopped"
          /\ UNCHANGED <<stage, ticking>> /\ {"finish", "start"} \subseteq Callback
      BY <1>4, <2>2 DEF ImportDone, SetUp, Callback
    <3>2. stage # "html"
      BY <3>1 DEF Library
    <3>3. q \in Seq(Callback)
      BY AppendFacts, <3>1
    <3>4. /\ \A f \in Callback \ {"finish"} : Single(q, f)
          /\ Double(q, "finish") /\ ~Has(q, "start") /\ (Has(q, "save") <=> Has(frames, "save"))
      BY AppendFacts, <3>1 DEF Waiting
    <3> HIDE DEF q
    <3>5. /\ \A f \in Callback \ {"finish"} : Single(frames', f)
          /\ Double(frames', "finish") /\ (Has(frames', "save") <=> Has(frames, "save"))
      BY <3>1, <3>3, <3>4, AppendFacts
    <3> QED BY <3>1, <3>2, <3>5 DEF Waiting
  <2> QED BY <2>1, <2>2
<1>5. CASE ResizeObserved
  <2>1. /\ frames' = Append(frames, "resize") /\ ~Has(frames, "resize") /\ observing
        /\ UNCHANGED <<stage, lib, ticking>> /\ "resize" \in Callback
    BY <1>5 DEF ResizeObserved, load, Queued, Has, Callback
  <2>2. stage # "html" /\ lib \notin {"none", "importing"}
    BY <2>1 DEF Library
  <2> QED BY <2>1, <2>2, AppendFacts DEF Waiting
<1>6. CASE Frame
  <2>1. /\ frames # << >> /\ frames' = Tail(frames) /\ UNCHANGED stage
        /\ IF Head(frames) = "save" THEN ticking' = FALSE ELSE UNCHANGED ticking
        /\ IF Head(frames) = "start" THEN lib' \in {lib, "started"} ELSE UNCHANGED lib
    BY <1>6 DEF Frame, Save, Start
  <2>2. /\ \A f \in Callback \ {"finish"} : Single(frames', f)
        /\ Double(frames', "finish")
        /\ Single(frames, "finish") => Single(frames', "finish")
        /\ \A f : Has(frames', f) => Has(frames, f)
    BY <2>1, TailFacts DEF Waiting
  <2>3. ticking' <=> Has(frames', "save")
    <3>1. CASE Head(frames) = "save"
      BY <2>1, <3>1, TailFacts DEF Waiting, Callback
    <3>2. CASE Head(frames) # "save"
      BY <2>1, <3>2, TailFacts DEF Waiting
    <3> QED BY <3>1, <3>2
  <2> QED BY <2>1, <2>2, <2>3 DEF Waiting
<1>7. CASE Mount \/ UndoMount \/ ImportFails
  <2>1. /\ UNCHANGED <<frames, ticking>>
        /\ stage' # "html" \/ stage' = stage
        /\ lib' \in {"none", "importing"} => lib \in {"none", "importing"}
    BY <1>7 DEF Mount, UndoMount, ImportFails, Library
  <2> QED BY <2>1 DEF Waiting
<1>8. CASE UndoLayoutEffect
  BY <1>8 DEF UndoLayoutEffect, Waiting
<1>9. CASE \/ Parse \/ DOMContentLoaded \/ Hide \/ UNCHANGED vars
           \/ \E p \in 0 .. Tall : Scroll(p)
           \/ \E h \in Base .. Tall : Content(h)
  <2>1. UNCHANGED <<frames, ticking, stage, lib>>
    BY <1>9 DEF Parse, DOMContentLoaded, Hide, Scroll, Content, load, vars
  <2> QED BY <2>1 DEF Waiting
<1> QED BY <1>1, <1>2, <1>3, <1>4, <1>5, <1>6, <1>7, <1>8, <1>9 DEF Next

-----------------------------------------------------------------------------
(* The library.                                                            *)

\* A frame that starts the library does so only while the component is there,
\* and only the observer's frame can come to a library that is gone.
LEMMA LibraryNext ==
  ASSUME Bounds, Waiting, Library, LibraryGoesWithPage, [Next]_vars
  PROVE  Library' /\ LibraryGoesWithPage'
<1> USE DEF Bounds, Library, LibraryGoesWithPage, Listening, browser, load, rest
<1>1. CASE Frame
  <2>1. UNCHANGED <<stage, observing, ready, disposed, desktop>>
    BY <1>1 DEF Frame
  <2>2. CASE Head(frames) = "start"
    <3>1. Has(frames, "start") /\ Start
      BY <1>1, <2>2, TailFacts DEF Frame
    <3>2. lib \notin {"none", "importing"}
      BY <3>1 DEF Waiting
    <3> QED BY <2>1, <3>1, <3>2 DEF Start, Call
  <2>3. CASE Head(frames) # "start"
    <3>1. UNCHANGED lib /\ misused' \subseteq misused \cup {"resize"}
      BY <1>1, <2>3 DEF Frame, Resize, Call
    <3> QED BY <2>1, <3>1
  <2> QED BY <2>2, <2>3
<1>2. CASE Reload
  BY <1>2 DEF Reload
<1>3. CASE Parse \/ DOMContentLoaded \/ LayoutEffect \/ ScrollEvent \/ Hide
  <2>1. /\ UNCHANGED <<lib, observing, ready, disposed, desktop, misused>>
        /\ stage' = stage \/ (stage = "html" /\ stage' = "laid")
    BY <1>3 DEF Parse, DOMContentLoaded, LayoutEffect, ScrollEvent, Hide
  <2> QED BY <2>1
<1>4. CASE Mount
  BY <1>4 DEF Mount
<1>5. CASE ImportDone
  <2>1. lib = "importing" /\ UNCHANGED <<stage, disposed, desktop, misused>>
    BY <1>5 DEF ImportDone
  <2>2. CASE disposed
    BY <1>5, <2>1, <2>2 DEF ImportDone
  <2>3. CASE ~disposed
    BY <1>5, <2>1, <2>3 DEF ImportDone, SetUp
  <2> QED BY <2>2, <2>3
<1>6. CASE ImportFails
  BY <1>6 DEF ImportFails
<1>7. CASE \/ ResizeObserved \/ \E p \in 0 .. Tall : Scroll(p)
           \/ \E h \in Base .. Tall : Content(h)
  <2>1. UNCHANGED <<lib, observing, ready, disposed, desktop, misused, stage>>
    BY <1>7 DEF ResizeObserved, Scroll, Content
  <2> QED BY <2>1
<1>8. CASE UndoLayoutEffect
  BY <1>8 DEF UndoLayoutEffect
<1>9. CASE UndoMount
  BY <1>9 DEF UndoMount
<1>10. CASE UNCHANGED vars
  BY <1>10 DEF vars
<1> QED BY <1>1, <1>2, <1>3, <1>4, <1>5, <1>6, <1>7, <1>8, <1>9, <1>10 DEF Next

-----------------------------------------------------------------------------
(* The position.                                                           *)

\* How long the page is before it is mounted and while it listens.
LEMMA LengthNext ==
  ASSUME Bounds, Length, [Next]_vars
  PROVE  Length'
<1> USE ScrollAssumption DEF Bounds, Length, Listening, browser, load, rest
<1>1. CASE Reload
  BY <1>1 DEF Reload
<1>2. CASE Parse \/ UndoLayoutEffect \/ \E h \in Base .. Tall : Content(h)
  BY <1>2, BecomesFacts DEF Parse, UndoLayoutEffect, Content
<1>3. CASE DOMContentLoaded \/ LayoutEffect \/ ImportDone \/ \E p \in 0 .. Tall : Scroll(p)
  <2>1. height' = height /\ UNCHANGED heard /\ (LayoutEffect \/ UNCHANGED stage)
    BY <1>3 DEF DOMContentLoaded, LayoutEffect, ImportDone, SetUp, Scroll, ScrollTo, Stay
  <2> QED BY <2>1 DEF LayoutEffect
<1>4. CASE ScrollEvent
  BY <1>4 DEF ScrollEvent
<1>5. CASE Hide \/ Mount \/ ImportFails \/ ResizeObserved \/ UndoMount
  BY <1>5 DEF Hide, Mount, ImportFails, ResizeObserved, UndoMount
<1>6. CASE Frame
  BY <1>6 DEF Frame, ScrollTo, Resize, Stay
<1>7. CASE UNCHANGED vars
  BY <1>7 DEF vars
<1> QED BY <1>1, <1>2, <1>3, <1>4, <1>5, <1>6, <1>7 DEF Next

\* The storage keeps the position from the moment the page is left until the
\* next page listens: nothing saves meanwhile.
LEMMA KeptNext ==
  ASSUME Bounds, Waiting, Library, Kept, [Next]_vars
  PROVE  Kept'
<1> USE ScrollAssumption DEF Bounds, Kept, Listening, browser, load, rest
<1>1. CASE Reload
  BY <1>1 DEF Reload, SavedOnLeave, Has
<1>2. CASE Parse
  BY <1>2, BecomesFacts DEF Parse
<1>3. CASE DOMContentLoaded
  BY <1>3, ScrollToFacts DEF DOMContentLoaded, Stay
<1>4. CASE LayoutEffect
  BY <1>4 DEF LayoutEffect
<1>5. CASE ScrollEvent
  BY <1>5 DEF ScrollEvent
<1>6. CASE Hide \/ Mount \/ ImportFails \/ UndoMount
  BY <1>6 DEF Hide, Mount, ImportFails, UndoMount
<1>7. CASE ImportDone
  <2>1. UNCHANGED <<stored, stage, left, target, touched>> /\ (stage = "html" => lib = "none")
    BY <1>7 DEF ImportDone, Library
  <2>2. Has(frames', "save") => Has(frames, "save")
    <3>1. CASE disposed
      BY <1>7, <3>1 DEF ImportDone
    <3>2. CASE ~disposed
      <4> DEFINE q == Append(frames, "finish")
      <4>1. frames' = Append(q, "start") /\ {"finish", "start"} \subseteq Callback
        BY <1>7, <3>2 DEF ImportDone, SetUp, Callback
      <4>2. /\ q \in Seq(Callback)
            /\ Has(q, "save") => Has(frames, "save")
        BY <4>1, AppendFacts
      <4> HIDE DEF q
      <4>3. Has(Append(q, "start"), "save") => Has(q, "save")
        BY <4>1, <4>2, AppendFacts
      <4> QED BY <4>1, <4>2, <4>3
    <3> QED BY <3>1, <3>2
  <2> QED BY <1>7, <2>1, <2>2 DEF ImportDone
<1>8. CASE ResizeObserved
  <2>1. Has(frames', "save") => Has(frames, "save")
    BY <1>8, AppendFacts DEF ResizeObserved, Callback
  <2> QED BY <1>8, <2>1 DEF ResizeObserved
<1>9. CASE Frame
  <2>1. /\ UNCHANGED <<stage, left, target, touched>>
        /\ frames # << >> /\ frames' = Tail(frames)
    BY <1>9 DEF Frame
  <2>2. ~Listening /\ left # None => UNCHANGED stored /\ ~Has(frames', "save")
    BY <1>9, <2>1, TailFacts DEF Frame
  <2>3. stage = "html" => Head(frames) = "restore"
    BY <2>1, TailFacts DEF Waiting
  <2>4. Head(frames) = "restore" => UNCHANGED stored /\ y' = IF target > height THEN height ELSE target
    BY <1>9 DEF Frame, ScrollTo
  <2> QED BY <2>1, <2>2, <2>3, <2>4
<1>10. CASE \E p \in 0 .. Tall : Scroll(p)
  BY <1>10 DEF Scroll
<1>11. CASE \E h \in Base .. Tall : Content(h)
  BY <1>11 DEF Content
<1>12. CASE UndoLayoutEffect
  BY <1>12 DEF UndoLayoutEffect, Waiting
<1>13. CASE UNCHANGED vars
  BY <1>13 DEF vars
<1> QED BY <1>1, <1>2, <1>3, <1>4, <1>5, <1>6, <1>7, <1>8, <1>9, <1>10, <1>11, <1>12, <1>13 DEF Next

\* What is going to be scrolled to is what was stored.
LEMMA AimedNext ==
  ASSUME Bounds, Kept, Aimed, [Next]_vars
  PROVE  Aimed'
<1> USE DEF Bounds, Aimed, Listening, browser, load, rest
<1>1. CASE Reload
  BY <1>1 DEF Reload
<1>2. CASE LayoutEffect
  BY <1>2, ScrollAssumption DEF LayoutEffect, readStoredScroll, Kept, ScriptY
<1>3. CASE Parse \/ DOMContentLoaded \/ ScrollEvent \/ Hide \/ ResizeObserved
  BY <1>3 DEF Parse, DOMContentLoaded, ScrollEvent, Hide, ResizeObserved
<1>4. CASE Mount \/ ImportDone \/ ImportFails \/ Frame
  BY <1>4 DEF Mount, ImportDone, ImportFails, Frame
<1>5. CASE \/ \E p \in 0 .. Tall : Scroll(p)
           \/ \E h \in Base .. Tall : Content(h)
  BY <1>5 DEF Scroll, Content
<1>6. CASE UndoLayoutEffect \/ UndoMount
  BY <1>6 DEF UndoLayoutEffect, UndoMount
<1>7. CASE UNCHANGED vars
  BY <1>7 DEF vars
<1> QED BY <1>1, <1>2, <1>3, <1>4, <1>5, <1>6, <1>7 DEF Next

\* Each of the callbacks that restore comes to the same place, and while the
\* page grows it stays there.
LEMMA RestoresNext ==
  ASSUME Bounds, Length, Kept, Aimed, RestoresPosition, [Next]_vars
  PROVE  RestoresPosition'
<1> USE ScrollAssumption DEF Bounds, Length, Aimed, RestoresPosition, Listening, browser, load, rest
<1>1. CASE Reload
  BY <1>1 DEF Reload
<1>2. CASE Parse
  BY <1>2 DEF Parse
<1>3. CASE DOMContentLoaded
  BY <1>3, ScrollToFacts DEF DOMContentLoaded, Stay
<1>4. CASE LayoutEffect
  BY <1>4, ScrollToFacts DEF LayoutEffect, readStoredScroll, Stay, Kept, ScriptY
<1>5. CASE ScrollEvent \/ Hide \/ Mount
  BY <1>5 DEF ScrollEvent, Hide, Mount
<1>6. CASE ImportDone
  BY <1>6, ScrollToFacts DEF ImportDone, SetUp, Stay
<1>7. CASE ImportFails \/ ResizeObserved \/ UndoMount
  BY <1>7 DEF ImportFails, ResizeObserved, UndoMount
<1>8. CASE Frame
  BY <1>8, ScrollToFacts DEF Frame, Resize, Stay
<1>9. CASE \E p \in 0 .. Tall : Scroll(p)
  BY <1>9 DEF Scroll
<1>10. CASE \E h \in Base .. Tall : Content(h)
  BY <1>10, BecomesFacts DEF Content
<1>11. CASE UndoLayoutEffect
  BY <1>11 DEF UndoLayoutEffect
<1>12. CASE UNCHANGED vars
  BY <1>12 DEF vars
<1> QED BY <1>1, <1>2, <1>3, <1>4, <1>5, <1>6, <1>7, <1>8, <1>9, <1>10, <1>11, <1>12 DEF Next

\* Whoever moves the page leaves a scroll event due, and who hears it leaves a
\* frame waiting.
LEMMA SavesNext ==
  ASSUME Bounds, Waiting, Length, SavesPosition, [Next]_vars
  PROVE  SavesPosition'
<1> USE ScrollAssumption DEF Bounds, SavesPosition, Listening, Queued, browser, load, rest
<1>1. CASE Reload
  BY <1>1 DEF Reload
<1>2. CASE Parse
  BY <1>2 DEF Parse
<1>3. CASE DOMContentLoaded
  BY <1>3, ScrollToFacts DEF DOMContentLoaded, Stay
<1>4. CASE LayoutEffect
  BY <1>4 DEF LayoutEffect, Length
<1>5. CASE ScrollEvent
  <2>1. Listening => Has(frames', "save")
    <3> SUFFICES ASSUME Listening PROVE Has(frames', "save")
      OBVIOUS
    <3>1. CASE ticking
      BY <1>5, <3>1 DEF ScrollEvent, saveScrollSoon, Waiting
    <3>2. CASE ~ticking
      BY <1>5, <3>2, AppendFacts DEF ScrollEvent, saveScrollSoon, Callback
    <3> QED BY <3>1, <3>2
  <2> QED BY <1>5, <2>1 DEF ScrollEvent, Has
<1>6. CASE Hide
  BY <1>6 DEF Hide
<1>7. CASE Mount \/ ImportFails \/ UndoMount
  BY <1>7 DEF Mount, ImportFails, UndoMount
<1>8. CASE ImportDone
  <2>1. /\ UNCHANGED <<stored, stage, heard>>
        /\ y' # y \/ moved => moved'
    BY <1>8, ScrollToFacts DEF ImportDone, SetUp, Stay
  <2>2. Has(frames, "save") => Has(frames', "save")
    BY <1>8 DEF ImportDone, SetUp, Has
  <2> QED BY <2>1, <2>2 DEF Has
<1>9. CASE ResizeObserved
  <2>1. Has(frames, "save") => Has(frames', "save")
    BY <1>9, AppendFacts DEF ResizeObserved, Callback
  <2> QED BY <1>9, <2>1 DEF ResizeObserved, Has
<1>10. CASE Frame
  <2>1. CASE Head(frames) = "save"
    BY <1>10, <2>1 DEF Frame, Save
  <2>2. CASE Head(frames) # "save"
    <3>1. /\ UNCHANGED <<stored, stage, heard>>
          /\ y' # y \/ moved => moved'
      BY <1>10, <2>2, ScrollToFacts DEF Frame, Resize, Stay
    <3>2. Has(frames, "save") => Has(frames', "save")
      BY <1>10, <2>2, TailFacts DEF Frame
    <3> QED BY <3>1, <3>2 DEF Has
  <2> QED BY <2>1, <2>2
<1>11. CASE \E p \in 0 .. Tall : Scroll(p)
  BY <1>11, ScrollToFacts DEF Scroll
<1>12. CASE \E h \in Base .. Tall : Content(h)
  BY <1>12, BecomesFacts DEF Content
<1>13. CASE UndoLayoutEffect
  BY <1>13 DEF UndoLayoutEffect
<1>14. CASE UNCHANGED vars
  BY <1>14 DEF vars
<1> QED BY <1>1, <1>2, <1>3, <1>4, <1>5, <1>6, <1>7, <1>8, <1>9, <1>10, <1>11, <1>12, <1>13, <1>14 DEF Next

-----------------------------------------------------------------------------
\* The two parts make up the type invariant.
LEMMA BoundsAreTypes == Bounds /\ Waiting => TypeOK
BY Short DEF Bounds, Waiting, TypeOK

\* The first load, of a page that has never been left.
LEMMA InitInv == Init => Inv
<1> SUFFICES ASSUME Init PROVE Inv
  OBVIOUS
<1> USE ScrollAssumption DEF Init
<1>1. Bounds
  <2>1. frames \in Seq(Callback)
    OBVIOUS
  <2>2. {parsed, restoring, ready, moved, ticking, observing, disposed, desktop,
         touched, heard} \subseteq BOOLEAN
    OBVIOUS
  <2>3. y \in 0 .. height /\ height \in 0 .. Tall /\ target \in 0 .. Tall
        /\ restored \in 0 .. Tall /\ reloads \in 0 .. MaxReloads
    OBVIOUS
  <2> QED BY <2>1, <2>2, <2>3 DEF Bounds
<1>2. Waiting
  BY DEF Waiting, Has, Single, Double
<1>3. Library /\ LibraryGoesWithPage
  BY DEF Library, LibraryGoesWithPage
<1>4. Length /\ Kept /\ Aimed /\ RestoresPosition /\ SavesPosition
  BY DEF Length, Kept, Aimed, RestoresPosition, SavesPosition, Listening, ScriptY
<1> QED BY <1>1, <1>2, <1>3, <1>4 DEF Inv

\* Every step keeps the inductive invariant.
LEMMA NextInv == Inv /\ [Next]_vars => Inv'
BY BoundsNext, WaitingNext, LibraryNext, LengthNext, KeptNext, AimedNext, RestoresNext, SavesNext
   DEF Inv

(***************************************************************************)
(* The inductive invariant holds however often the page is loaded, however *)
(* long it is, and in whatever order its callbacks come                    *)
(* (DesktopSmoothScroll.tsx:18-127, layout.tsx:22-50).                     *)
(***************************************************************************)
THEOREM Invariance == Spec => []Inv
BY InitInv, NextInv, PTL DEF Spec

(***************************************************************************)
(* The types; at most six callbacks wait for a frame.                      *)
(***************************************************************************)
THEOREM Types == Spec => []TypeOK
<1>1. Inv => TypeOK
  BY BoundsAreTypes DEF Inv
<1> QED BY <1>1, Invariance, PTL

(***************************************************************************)
(* A page that is loaded again is where it was left, until the user        *)
(* scrolls (layout.tsx:33-50, DesktopSmoothScroll.tsx:42-47).              *)
(***************************************************************************)
THEOREM Restores == Spec => []RestoresPosition
<1>1. Inv => RestoresPosition
  BY DEF Inv
<1> QED BY <1>1, Invariance, PTL

(***************************************************************************)
(* Throttling the scroll events loses no position                          *)
(* (DesktopSmoothScroll.tsx:50-60).                                        *)
(***************************************************************************)
THEOREM Saves == Spec => []SavesPosition
<1>1. Inv => SavesPosition
  BY DEF Inv
<1> QED BY <1>1, Invariance, PTL

(***************************************************************************)
(* Nothing of the library outlives the component, whenever the import is   *)
(* done (DesktopSmoothScroll.tsx:86-126).                                  *)
(***************************************************************************)
THEOREM LibraryGoes == Spec => []LibraryGoesWithPage
<1>1. Inv => LibraryGoesWithPage
  BY DEF Inv
<1> QED BY <1>1, Invariance, PTL

\* A page whose restoration is over is moved by the user alone.
LEMMA SettledStep ==
  ASSUME Bounds, [Next]_vars, Settled, y' # y
  PROVE  \/ \E p \in 0 .. Tall : Scroll(p)
         \/ \E h \in Base .. Tall : Content(h)
         \/ Reload \/ UndoLayoutEffect
<1> SUFFICES ASSUME \/ Parse \/ DOMContentLoaded \/ LayoutEffect \/ ScrollEvent \/ Hide
                    \/ Mount \/ ImportDone \/ ImportFails \/ ResizeObserved \/ Frame
                    \/ UndoMount \/ UNCHANGED vars
             PROVE  FALSE
  BY DEF Next
<1> USE DEF Settled, browser
<1>1. CASE Parse \/ DOMContentLoaded \/ LayoutEffect \/ ImportDone
  BY <1>1 DEF Parse, DOMContentLoaded, LayoutEffect, ImportDone
<1>2. CASE Frame
  <2>1. Has(frames, Head(frames))
    BY <1>2, TailFacts DEF Frame, Bounds
  <2> QED BY <1>2, <2>1 DEF Frame, Resize, Stay, Queued, Has
<1>3. CASE ScrollEvent \/ Hide \/ Mount \/ ImportFails \/ ResizeObserved \/ UndoMount
  BY <1>3 DEF ScrollEvent, Hide, Mount, ImportFails, ResizeObserved, UndoMount
<1>4. CASE UNCHANGED vars
  BY <1>4 DEF vars
<1> QED BY <1>1, <1>2, <1>3, <1>4

(***************************************************************************)
(* Neither a late frame nor a late observer moves the page when its        *)
(* restoration is over (DesktopSmoothScroll.tsx:101-115).                  *)
(***************************************************************************)
THEOREM UserScrolls == Spec => OnlyUserScrolls
<1>1. Inv /\ [Next]_vars =>
        [Settled /\ y' # y =>
           \/ \E p \in 0 .. Tall : Scroll(p)
           \/ \E h \in Base .. Tall : Content(h)
           \/ Reload \/ UndoLayoutEffect]_vars
  BY SettledStep DEF Inv
<1> QED BY <1>1, Invariance, PTL DEF Spec, OnlyUserScrolls
=============================================================================
