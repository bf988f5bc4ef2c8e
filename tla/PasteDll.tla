------------------------------- MODULE PasteDll -------------------------------
(***************************************************************************)
(* The Windows clipboard DLL (data_sharing/clipboard): what a peer copied  *)
(* is offered on the local clipboard as an OLE data object, a paste makes  *)
(* the object ask the Go client for the data, and the data that arrive are *)
(* handed to whatever object is current.  Next to it run the monitor that  *)
(* reports local copies and the progress windows.                          *)
(*                                                                         *)
(* Threads: a goroutine per offer, which publishes the data object and     *)
(* then serves it in a message loop (clipboard.cpp, MSPasteImpl.cpp,       *)
(* MSDataObject.cpp); the monitor's thread (clipboard.cpp); a thread per   *)
(* progress window (MSProgressBar.cpp); the goroutine of the client that   *)
(* fetches data and writes them (external).                                *)
(*                                                                         *)
(* Abstractions: a download has Parts parts, a write and the read that     *)
(* takes it are one step each (PasteStream has their interleaving), and    *)
(* the few instructions that replace msPasteImpl are one step: two offers  *)
(* do not arrive within them.                                              *)
(***************************************************************************)
EXTENDS Naturals, FiniteSets, Sequences

CONSTANTS
  Offers,  \* the peers' offers, numbered from 1
  Pastes,  \* the pastes of the local user, numbered from 1
  Budgets, \* bounds on what peers and users do, one of which a behaviour has
  Parts    \* parts of a download

ASSUME BoundsAssumption ==
  /\ IsFiniteSet(Offers) /\ Offers = 1..Cardinality(Offers)
  /\ IsFiniteSet(Pastes) /\ Pastes = 1..Cardinality(Pastes)
  /\ Budgets \subseteq [offers : 0..Cardinality(Offers), pastes : 0..Cardinality(Pastes),
                       copies : Nat, drops : {0, 1}]
  /\ Parts \in Nat \ {0}

Drop == Cardinality(Pastes) + 1 \* the file drop's progress window
Bars == Pastes \cup {Drop}

VARIABLES
  impl,     \* msPasteImpl: the offer it was made for, 0 if none
  kind,     \* kind[o]: a file or an image
  thread,   \* thread[o]: where the goroutine of offer o is
  then,     \* then[o]: what it does when it has joined a window's thread
  cur,      \* cur[o]: the paste of mCurStream or mImgHandler, 0 if none
  bar,      \* bar[o]: the paste of mCurProgressBar, 0 if none
  isOle,    \* g_isOleClipboardOperation
  clip,     \* the system's clipboard: an offer's data object, or what the user
            \* copied, a file or an image
  updates,  \* WM_CLIPBOARDUPDATE messages the monitor has not taken
  monitor,  \* control state of ClipboardMonitorThread
  reported, \* the local copies reported to the client
  window,   \* window[b]: state of progress window b and its thread
  win,      \* g_win: the window created last
  posted,   \* posted[b]: the messages window b has been sent
  stream,   \* stream[t]: for each part written, the paste it was fetched for
  pos,      \* pos[t]: mPosition of a file's stream
  cancelled,\* cancelled[t]: mCancel
  deaf,     \* the images whose reader has lost a Cancel
  go,       \* the fetching goroutine: pc, the paste it serves, parts to come
  source,   \* the client knows where to fetch from
  dropBar,  \* MSFileDrop's bar: "none", "due" (accepted, not made), "made"
  left,     \* what peers and users may still do
  crossed,  \* ghost: an offer, paste or drop began before the last one ended
  exposed,  \* ghost: the local copies that met an offer on its way, or that the
            \* monitor could not get from the system
  crashed   \* a NULL pointer was used

vars == <<impl, kind, thread, then, cur, bar, isOle, clip, updates, monitor, reported,
          window, win, posted, stream, pos, cancelled, deaf, go, source, dropBar, left,
          crossed, exposed, crashed>>
objects == <<impl, kind, cur, bar, then>>
clipVars == <<isOle, clip, updates, exposed>>
monVars == <<monitor, reported>>
barVars == <<window, win, posted>>
dataVars == <<stream, pos, cancelled, deaf>>
goVars == <<go, source, dropBar>>
envVars == <<left, crossed>>

Empty == [by |-> "nobody", n |-> 0]
Idle == [pc |-> "idle", for |-> 0, left |-> 0]

ThreadStates == {"none", "replace", "mark", "publish", "unmark", "loop", "join",
                 "create", "setup", "start", "image", "read", "gone", "failed"}
WindowStates == {"none", "starting", "open", "warning", "closed", "failed"}

TypeOK ==
  /\ impl \in {0} \cup Offers
  /\ kind \in [Offers -> {"file", "image"}]
  /\ thread \in [Offers -> ThreadStates]
  /\ then \in [Offers -> {"loop", "create", "replace"}]
  /\ cur \in [Offers -> {0} \cup Pastes]
  /\ bar \in [Offers -> {0} \cup Pastes]
  /\ isOle \in BOOLEAN
  /\ clip \in [by : {"nobody", "user", "dll"}, n : Nat]
  /\ updates \in Nat
  /\ monitor \in {"off", "idle", "look", "fetch", "dead"}
  /\ reported \subseteq Nat
  /\ window \in [Bars -> WindowStates]
  /\ win \in {0} \cup Bars
  /\ posted \in [Bars -> SUBSET {"full", "error"}]
  /\ stream \in [Pastes -> Seq({0} \cup Bars)]
  /\ pos \in [Pastes -> 0..Parts]
  /\ cancelled \in [Pastes -> BOOLEAN]
  /\ deaf \subseteq Pastes
  /\ go \in [pc : {"idle", "asked", "recv", "deinit"}, for : {0} \cup Bars, left : 0..Parts]
  /\ source \in BOOLEAN
  /\ dropBar \in {"none", "due", "made"}
  /\ left \in [offers : {0} \cup Offers, pastes : {0} \cup Pastes,
               copies : Nat, drops : {0, 1}]
  /\ crossed \in BOOLEAN
  /\ exposed \subseteq Nat
  /\ crashed \in BOOLEAN

Init ==
  /\ impl = 0
  /\ kind \in [Offers -> {"file", "image"}]
  /\ thread = [o \in Offers |-> "none"]
  /\ then = [o \in Offers |-> "loop"]
  /\ cur = [o \in Offers |-> 0]
  /\ bar = [o \in Offers |-> 0]
  /\ isOle = FALSE /\ clip = Empty /\ updates = 0
  /\ monitor = "off" /\ reported = {}
  /\ window = [b \in Bars |-> "none"] /\ win = 0 /\ posted = [b \in Bars |-> {}]
  /\ stream = [t \in Pastes |-> <<>>]
  /\ pos = [t \in Pastes |-> 0]
  /\ cancelled = [t \in Pastes |-> FALSE]
  /\ deaf = {}
  /\ go = Idle /\ source = FALSE /\ dropBar = "none"
  /\ left \in Budgets
  /\ crossed = FALSE /\ exposed = {} /\ crashed = FALSE

At(o, from, to) == thread[o] = from /\ thread' = [thread EXCEPT ![o] = to]

(* Something of an earlier offer, paste or drop is still going on.         *)
Busy ==
  \/ go.pc # "idle" \/ dropBar # "none"
  \/ \E o \in Offers : thread[o] \notin {"none", "loop", "gone", "failed"}
  \/ \E o \in Offers : kind[o] = "file" /\ cur[o] # 0
  \/ \E b \in Bars : window[b] \notin {"none", "closed"}

(* The listener gets a message for every change.                           *)
Changed(c) ==
  /\ clip' = c
  /\ updates' = IF monitor \in {"off", "dead"} THEN updates ELSE updates + 1

-----------------------------------------------------------------------------
(* Offers: GoSetupDstPasteFile or GoSetupDstPasteImage in a new goroutine. *)

Offer ==
  /\ left.offers > 0
  /\ left' = [left EXCEPT !.offers = @ - 1]
  /\ At(left.offers, "none", "replace")
  /\ source' = TRUE
  /\ crossed' = (crossed \/ Busy)
  /\ UNCHANGED <<objects, clipVars, monVars, barVars, dataVars, go, dropBar, crashed>>

(* SetupDstPasteFile, SetupDstPasteImage: the old MSPasteImpl is deleted   *)
(* and drops its data object.  The clipboard, if it still has the object,  *)
(* keeps it alive: ReleaseOle runs on the new offer's thread, where OLE is *)
(* not initialised, so that OleSetClipboard(NULL) fails there.             *)
Replace(o) ==
  /\ At(o, "replace", "mark")
  /\ impl' = o
  /\ UNCHANGED <<kind, cur, bar, then, clipVars, monVars, barVars, dataVars, goVars,
                 envVars, crashed>>

(* The reference dropped may be the last, when the clipboard has something *)
(* else by now: ~MSDataObject releases the stream and joins the window's   *)
(* thread, on the new offer's thread.                                      *)
DeleteOld(o) ==
  /\ thread[o] = "replace"
  /\ impl # 0 /\ thread[impl] = "loop"
  /\ clip.by # "dll" \/ clip.n # impl
  /\ cur[impl] # 0 \/ bar[impl] # 0
  /\ cur' = [cur EXCEPT ![impl] = 0]
  /\ bar' = [bar EXCEPT ![o] = bar[impl], ![impl] = 0]
  /\ thread' = [thread EXCEPT ![o] = IF bar[impl] # 0 THEN "join" ELSE "replace"]
  /\ then' = [then EXCEPT ![o] = "replace"]
  /\ UNCHANGED <<impl, kind, clipVars, monVars, barVars, dataVars, goVars, envVars, crashed>>

(* SetupPasteImage gives up an image without data, InitOle one or a file   *)
(* for which OLE cannot be initialised: msPasteImpl stays, without a data  *)
(* object.                                                                 *)
OfferFails(o) ==
  /\ At(o, "mark", "failed")
  /\ UNCHANGED <<objects, clipVars, monVars, barVars, dataVars, goVars, envVars, crashed>>

(* InitOle.                                                                *)
Mark(o) ==
  /\ At(o, "mark", "publish")
  /\ isOle' = TRUE
  /\ exposed' = IF clip.by = "user" THEN exposed \cup {clip.n} ELSE exposed
  /\ UNCHANGED <<objects, clip, updates, monVars, barVars, dataVars, goVars,
                 envVars, crashed>>

(* SetOleClipboard; it may fail.                                           *)
Publish(o) ==
  /\ At(o, "publish", "unmark")
  /\ \/ Changed([by |-> "dll", n |-> o])
     \/ UNCHANGED <<clip, updates>>
  /\ UNCHANGED <<objects, isOle, exposed, monVars, barVars, dataVars, goVars, envVars, crashed>>

(* Mutant: the flag is not lowered again.                                  *)
StayMarked(o) ==
  /\ At(o, "unmark", "loop")
  /\ UNCHANGED <<objects, clipVars, monVars, barVars, dataVars, goVars, envVars, crashed>>

Unmark(o) ==
  /\ At(o, "unmark", "loop")
  /\ isOle' = FALSE
  /\ UNCHANGED <<objects, clip, updates, exposed, monVars, barVars, dataVars, goVars,
                 envVars, crashed>>

(* The loop tests mIsInited of an object that a later offer has deleted:   *)
(* it may end or not.                                                      *)
LoopEnds(o) ==
  /\ At(o, "loop", "gone") /\ impl # o
  /\ UNCHANGED <<objects, clipVars, monVars, barVars, dataVars, goVars, envVars, crashed>>

-----------------------------------------------------------------------------
(* MSDataObject, on the thread of its offer *)

(* ReleaseObj: the stream goes at once, a progress window's thread is      *)
(* joined first.                                                           *)
Release(o, next) ==
  /\ cur' = [cur EXCEPT ![o] = 0]
  /\ thread' = [thread EXCEPT ![o] = IF bar[o] # 0 THEN "join" ELSE next]
  /\ then' = [then EXCEPT ![o] = next]

(* GetData, GetFileData and GetDibData, up to ReleaseObj.                  *)
GetData(o) ==
  /\ clip.by = "dll" /\ clip.n = o /\ thread[o] = "loop"
  /\ left.pastes > 0
  /\ left' = [left EXCEPT !.pastes = @ - 1]
  /\ Release(o, "create")
  /\ crossed' = (crossed \/ Busy \/ ~source \/ impl # o)
  /\ UNCHANGED <<impl, kind, bar, clipVars, barVars, dataVars, goVars, crashed>>

UserPastes(o) == GetData(o) /\ UNCHANGED monVars

(* Mutant: ~MSProgressBar detaches the window's thread.                    *)
JoinNothing(o) ==
  /\ At(o, "join", then[o])
  /\ bar' = [bar EXCEPT ![o] = 0]
  /\ UNCHANGED <<impl, kind, cur, then, clipVars, monVars, barVars, dataVars, goVars,
                 envVars, crashed>>

(* ~MSProgressBar.                                                         *)
Join(o) ==
  /\ At(o, "join", then[o])
  /\ window[bar[o]] \in {"closed", "failed"}
  /\ bar' = [bar EXCEPT ![o] = 0]
  /\ UNCHANGED <<impl, kind, cur, then, clipVars, monVars, barVars, dataVars, goVars,
                 envVars, crashed>>

(* The new window's thread and the new stream.                             *)
Create(o) ==
  /\ At(o, "create", "setup")
  /\ LET t == CHOOSE t \in Pastes : window[t] = "none"
     IN  /\ bar' = [bar EXCEPT ![o] = t]
         /\ cur' = [cur EXCEPT ![o] = t]
         /\ window' = [window EXCEPT ![t] = "starting"]
  /\ UNCHANGED <<impl, kind, then, clipVars, monVars, win, posted, dataVars, goVars,
                 envVars, crashed>>

(* WaitSetupReady: for ever, if the window could not be made.              *)
WaitSetupReady(o) ==
  /\ At(o, "setup", "start")
  /\ window[bar[o]] \notin {"starting", "failed"}
  /\ UNCHANGED <<objects, clipVars, monVars, barVars, dataVars, goVars, envVars, crashed>>

(* StartDownload: clipboardPasteFileCallback waits for CtxMutex, which a   *)
(* download holds, and so does the removal of a drop's window.             *)
StartDownload(o) ==
  /\ At(o, "start", IF kind[o] = "file" THEN "loop" ELSE "image")
  /\ go.pc \notin {"recv", "deinit"}
  /\ go' = [pc |-> "asked", for |-> cur[o], left |-> 0]
  /\ UNCHANGED <<objects, clipVars, monVars, barVars, dataVars, source, dropBar,
                 envVars, crashed>>

(* GetImg returns, with the image or, cancelled, with part of it, unless   *)
(* Check has lost the Cancel.  The monitor, if it asked, reports what it   *)
(* has got if it can.                                                      *)
ImageEnds(o) ==
  /\ At(o, "image", "loop")
  /\ Len(stream[cur[o]]) = Parts \/ (cancelled[cur[o]] /\ cur[o] \notin deaf)
  /\ monitor' = IF monitor = "fetch" THEN "idle" ELSE monitor
  /\ \/ reported' = IF monitor = "fetch" THEN reported \cup {0} ELSE reported
     \/ UNCHANGED reported
  /\ UNCHANGED <<objects, clipVars, barVars, dataVars, goVars, envVars, crashed>>

(* The pasting program calls Read.                                         *)
ReadBegins(o) ==
  /\ thread[o] = "loop" /\ kind[o] = "file" /\ cur[o] # 0 /\ pos[cur[o]] < Parts
  /\ thread' = [thread EXCEPT ![o] = "read"]
  /\ UNCHANGED <<objects, clipVars, monVars, barVars, dataVars, goVars, envVars, crashed>>

ReadReturns(o) ==
  /\ At(o, "read", "loop")
  /\ ~cancelled[cur[o]] /\ pos[cur[o]] < Len(stream[cur[o]])
  /\ pos' = [pos EXCEPT ![cur[o]] = Len(stream[cur[o]])]
  /\ UNCHANGED <<objects, clipVars, monVars, barVars, stream, cancelled, deaf, goVars,
                 envVars, crashed>>

(* Read at the end of the file, or cancelled: OnStreamEOF.                 *)
ReadEnds(o) ==
  /\ \/ thread[o] = "loop" /\ kind[o] = "file" /\ cur[o] # 0 /\ pos[cur[o]] = Parts
     \/ thread[o] = "read" /\ cancelled[cur[o]]
  /\ Release(o, "loop")
  /\ UNCHANGED <<impl, kind, bar, clipVars, monVars, barVars, dataVars, goVars,
                 envVars, crashed>>

-----------------------------------------------------------------------------
(* MSProgressBar: Init and WndProgressProc *)

WindowMade(b) ==
  /\ window[b] = "starting"
  /\ \/ window' = [window EXCEPT ![b] = "open"] /\ win' = b
     \/ window' = [window EXCEPT ![b] = "failed"] /\ win' = 0
  /\ UNCHANGED <<posted, thread, objects, clipVars, monVars, dataVars, goVars, envVars, crashed>>

WindowCloses(b) ==
  /\ window[b] \in {"open", "warning"} /\ "full" \in posted[b]
  /\ window' = [window EXCEPT ![b] = "closed"]
  /\ UNCHANGED <<win, posted, thread, objects, clipVars, monVars, dataVars, goVars,
                 envVars, crashed>>

WindowWarns(b) ==
  /\ window[b] = "open" /\ "error" \in posted[b]
  /\ window' = [window EXCEPT ![b] = "warning"]
  /\ UNCHANGED <<win, posted, thread, objects, clipVars, monVars, dataVars, goVars,
                 envVars, crashed>>

(* The user's OK.                                                          *)
UserConfirms(b) ==
  /\ window[b] = "warning"
  /\ window' = [window EXCEPT ![b] = "closed"]
  /\ UNCHANGED <<win, posted, thread, objects, clipVars, monVars, dataVars, goVars,
                 envVars, crashed>>

(* SetProgress, SetErrorMsg, SetTransTerm: to the window made last.        *)
Post(what) ==
  posted' = IF win = 0 THEN posted ELSE [posted EXCEPT ![win] = @ \cup {what}]

-----------------------------------------------------------------------------
(* The client's goroutine (external) and what it calls *)

GoStarts ==
  /\ go.pc = "asked" /\ source
  /\ go' = [go EXCEPT !.pc = "recv", !.left = Parts]
  /\ UNCHANGED <<thread, objects, clipVars, monVars, barVars, dataVars, source, dropBar,
                 envVars, crashed>>

(* mCurDataObject of msPasteImpl, 0 if SetOleClipboard has not made it.    *)
DataObject ==
  IF impl # 0 /\ thread[impl] \in {"mark", "publish", "failed"} THEN 0 ELSE impl

(* MSDataObject::GetInterface: the paste that gets what arrives now.       *)
Current == IF DataObject = 0 THEN 0 ELSE cur[DataObject]

(* Mutant: the receive loop tests what is left after the write.            *)
GoWritesOnce ==
  /\ go.pc = "recv"
  /\ go' = [go EXCEPT !.left = @ - 1]
  /\ IF go.for # Drop /\ Current # 0
     THEN stream' = [stream EXCEPT ![Current] = Append(@, go.for)]
     ELSE UNCHANGED stream
  /\ UNCHANGED <<thread, objects, clipVars, monVars, barVars, pos, cancelled, deaf, source,
                 dropBar, envVars, crashed>>

(* There is memory for what arrives; an image has it only in GetImg.       *)
Takes == Current # 0 /\ ~(kind[DataObject] = "image" /\ thread[DataObject] = "setup")

(* DataTransfer, or for an accepted drop UpdateProgressBar.                *)
GoWrites ==
  /\ go.pc = "recv" /\ go.left > 0
  /\ go' = [go EXCEPT !.left = @ - 1]
  /\ IF go.for = Drop
     THEN /\ IF go.left = 1 THEN Post("full") ELSE UNCHANGED posted
          /\ UNCHANGED <<stream, deaf>>
     ELSE IF Takes /\ Len(stream[Current]) < Parts
     THEN /\ stream' = [stream EXCEPT ![Current] = Append(@, go.for)]
          /\ deaf' = deaf \ {Current}
          /\ IF Len(stream[Current]) + 1 = Parts THEN Post("full") ELSE UNCHANGED posted
     ELSE UNCHANGED <<stream, posted, deaf>>
  /\ UNCHANGED <<thread, objects, clipVars, monVars, window, win, pos, cancelled, source,
                 dropBar, envVars, crashed>>

(* The end of the download: CloseDstFile, ClearCopySourceData.             *)
Finish ==
  /\ source' = FALSE
  /\ go' = IF go.for = Drop /\ dropBar = "made" THEN [go EXCEPT !.pc = "deinit"] ELSE Idle

(* All has arrived, or the connection broke.                               *)
GoEnds ==
  /\ go.pc = "recv"
  /\ Finish
  /\ UNCHANGED <<thread, objects, clipVars, monVars, barVars, dataVars, dropBar,
                 envVars, crashed>>

(* Mutant: EventHandle cancels the stream but shows no message.            *)
GoCancelsQuietly ==
  /\ go.pc = "recv" /\ go.left > 0
  /\ crashed' = (impl # 0 /\ DataObject = 0)
  /\ IF Current # 0
     THEN cancelled' = [cancelled EXCEPT ![Current] = TRUE]
     ELSE UNCHANGED cancelled
  /\ Finish
  /\ UNCHANGED <<thread, objects, clipVars, monVars, barVars, stream, pos, deaf, dropBar, envVars>>

(* Mutant: EventHandle does not test msPasteImpl either.                   *)
GoCancelsAnyway ==
  /\ go.pc = "recv" /\ go.left > 0
  /\ crashed' = (DataObject = 0)
  /\ IF Current # 0
     THEN cancelled' = [cancelled EXCEPT ![Current] = TRUE] /\ Post("error")
     ELSE UNCHANGED <<cancelled, posted>>
  /\ Finish
  /\ UNCHANGED <<thread, objects, clipVars, monVars, window, win, stream, pos, deaf, dropBar,
                 envVars>>

(* The reader of image t, woken by a part of it, may be between its test   *)
(* of mCancel and the clearing of the flag, and so lose a Cancel; the next *)
(* raising of the flag shows it.                                           *)
CancelHeard(t) ==
  \/ deaf' = deaf \ {t}
  \/ kind[DataObject] = "image" /\ stream[t] # <<>> /\ deaf' = deaf \cup {t}

(* EventHandle: MSPasteImpl uses mCurDataObject without a test.            *)
GoCancels ==
  /\ go.pc = "recv" /\ go.left > 0
  /\ crashed' = (impl # 0 /\ DataObject = 0)
  /\ IF Current # 0
     THEN /\ cancelled' = [cancelled EXCEPT ![Current] = TRUE]
          /\ CancelHeard(Current)
          /\ Post("error")
     ELSE UNCHANGED <<cancelled, deaf, posted>>
  /\ Finish
  /\ UNCHANGED <<thread, objects, clipVars, monVars, window, win, stream, pos, dropBar, envVars>>

(* MSFileDrop::SetupDialog: the user accepts a drop, in the goroutine that *)
(* holds CtxMutex; the window is made after the request is on its way.     *)
DropAccepted ==
  /\ left.drops > 0 /\ go.pc \notin {"recv", "deinit"}
  /\ left' = [left EXCEPT !.drops = @ - 1]
  /\ go' = [pc |-> "asked", for |-> Drop, left |-> 0]
  /\ source' = TRUE
  /\ dropBar' = "due"
  /\ crossed' = (crossed \/ Busy)
  /\ UNCHANGED <<thread, objects, clipVars, monVars, barVars, dataVars, crashed>>

DropBarMade ==
  /\ dropBar = "due"
  /\ dropBar' = "made"
  /\ window' = [window EXCEPT ![Drop] = "starting"]
  /\ UNCHANGED <<thread, objects, clipVars, monVars, win, posted, dataVars, go, source,
                 envVars, crashed>>

(* DeinitProgressBar joins the window's thread.                            *)
DropBarEnds ==
  /\ go.pc = "deinit" /\ window[Drop] \in {"closed", "failed"}
  /\ go' = Idle
  /\ dropBar' = "none"
  /\ UNCHANGED <<thread, objects, clipVars, monVars, barVars, dataVars, source, envVars, crashed>>

-----------------------------------------------------------------------------
(* The monitor *)

UserCopies ==
  /\ left.copies > 0
  /\ left' = [left EXCEPT !.copies = @ - 1]
  /\ Changed([by |-> "user", n |-> left.copies])
  /\ exposed' = IF \/ monitor \in {"off", "dead"}
                   \/ \E o \in Offers : thread[o] \in {"publish", "unmark"}
                THEN exposed \cup {left.copies} ELSE exposed
  /\ UNCHANGED <<thread, objects, isOle, monVars, barVars, dataVars, goVars, crossed, crashed>>

(* StartClipboardMonitor; the window or the listener may fail.             *)
MonitorStarts ==
  /\ monitor = "off"
  /\ monitor' \in {"idle", "dead"}
  /\ UNCHANGED <<thread, objects, clipVars, reported, barVars, dataVars, goVars, envVars, crashed>>

(* WM_CLIPBOARDUPDATE: the test of g_isOleClipboardOperation.              *)
MonitorTests ==
  /\ monitor = "idle" /\ updates > 0
  /\ updates' = updates - 1
  /\ monitor' = IF isOle THEN "idle" ELSE "look"
  /\ UNCHANGED <<thread, objects, isOle, clip, exposed, reported, barVars, dataVars, goVars,
                 envVars, crashed>>

(* The rest: the copied file or image is reported.  Of an image the DLL    *)
(* itself offers the system makes the bitmap that is asked for.            *)
MonitorLooks ==
  /\ monitor = "look"
  /\ \/ /\ clip.by # "dll" \/ kind[clip.n] # "image"
        /\ reported' = IF clip.by = "user" THEN reported \cup {clip.n} ELSE reported
        /\ monitor' = "idle"
        /\ UNCHANGED <<thread, objects, barVars, dataVars, goVars, envVars>>
     \/ \E o \in Offers :
          /\ kind[o] = "image" /\ GetData(o)
          /\ monitor' = "fetch"
          /\ UNCHANGED reported
  /\ UNCHANGED <<clipVars, crashed>>

(* OpenClipboard, GetClipboardData or GetObject fails, or the file's size  *)
(* cannot be had: nothing is reported, nor tried again.                    *)
MonitorMisses ==
  /\ monitor = "look"
  /\ monitor' = "idle"
  /\ exposed' = IF clip.by = "user" THEN exposed \cup {clip.n} ELSE exposed
  /\ UNCHANGED <<thread, objects, isOle, clip, updates, reported, barVars, dataVars, goVars,
                 envVars, crashed>>

-----------------------------------------------------------------------------
ApartmentStep(o) ==
  \/ Replace(o) \/ DeleteOld(o) \/ OfferFails(o) \/ Mark(o) \/ Publish(o) \/ Unmark(o)
  \/ Join(o) \/ Create(o)
  \/ WaitSetupReady(o) \/ StartDownload(o) \/ ImageEnds(o)
  \/ ReadBegins(o) \/ ReadReturns(o) \/ ReadEnds(o)

WindowStep(b) == WindowMade(b) \/ WindowCloses(b) \/ WindowWarns(b)

Next ==
  /\ ~crashed
  /\ \/ Offer
     \/ \E o \in Offers : ApartmentStep(o) \/ LoopEnds(o) \/ UserPastes(o)
     \/ \E b \in Bars : WindowStep(b) \/ UserConfirms(b)
     \/ GoStarts \/ GoWrites \/ GoEnds \/ GoCancels
     \/ DropAccepted \/ DropBarMade \/ DropBarEnds
     \/ UserCopies \/ MonitorStarts \/ MonitorTests \/ MonitorLooks \/ MonitorMisses

Spec == Init /\ [][Next]_vars

(* The threads run and the pasting program goes on reading; peers, the     *)
(* network and the user need not do anything.                              *)
Fairness ==
  /\ \A o \in Offers : WF_vars(~crashed /\ ApartmentStep(o))
  /\ \A b \in Bars : WF_vars(~crashed /\ WindowStep(b))
  /\ WF_vars(~crashed /\ (DropBarMade \/ DropBarEnds))
  /\ WF_vars(~crashed /\ (MonitorTests \/ MonitorLooks \/ MonitorMisses))

FairSpec == Spec /\ Fairness

-----------------------------------------------------------------------------
(* Properties *)

(* The thread of a progress window uses the MSProgressBar it belongs to    *)
(* (m_Mutex, m_SetupReady): no window outlives its object.                 *)
WindowsHaveOwners ==
  \A t \in Pastes :
    window[t] \in {"starting", "open", "warning"} => \E o \in Offers : bar[o] = t

(* What the user copied last is reported once the monitor has nothing left *)
(* to look at, unless an offer was published around it or the system did   *)
(* not let the monitor have it: the flag that hides the DLL's own offers   *)
(* from the monitor hides nothing for good.                                *)
LocalCopyReported ==
  clip.by = "user" /\ updates = 0 /\ monitor = "idle" => clip.n \in reported \cup exposed

(* An event of the source finds a data object, unless offers, pastes and   *)
(* drops get in each other's way or the last offer could not be set up.    *)
CalmNeverCrashes == crashed => crossed \/ (impl # 0 /\ thread[impl] = "failed")

(* Paste t is over: its window is closed, or waits for the user, and the   *)
(* pasting program is not kept waiting.                                    *)
PasteOver(t) ==
  /\ window[t] \in {"closed", "warning"}
  /\ \A o \in Offers : cur[o] = t => kind[o] = "image" /\ thread[o] # "image"

(* A paste that has all its data, or whose source failed, comes to its end *)
(* and its window is closed or says what happened, unless offers, pastes   *)
(* and drops get in each other's way or an image's reader loses the Cancel.*)
CalmPasteEnds ==
  \A t \in Pastes :
    (Len(stream[t]) = Parts \/ cancelled[t])
      ~> (PasteOver(t) \/ crossed \/ crashed \/ t \in deaf)
================================================================================
