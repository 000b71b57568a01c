---------------------------- MODULE TrustedSend ----------------------------
(***************************************************************************)
(* How the extension's service worker sends a text by one trusted click,   *)
(* prepares a file that the macOS helper of the driver sends by one press, *)
(* and takes a screenshot behind a privacy mask, in ChatGPT tabs whose     *)
(* page the user and Chrome may change at any moment.                      *)
(*                                                                         *)
(* Send commands of all writers pass one at a time through the activation  *)
(* queue, each with a deadline.  Clicks and screenshots of one tab pass    *)
(* one at a time through the tab's debugger queue.  The driver, on the     *)
(* backend's side, calls again only after an answer that says that nothing *)
(* was delivered.  A file is first put into the composer, and the worker   *)
(* stops before the click; the helper reads the page again and presses.    *)
(***************************************************************************)
EXTENDS Naturals, Sequences, SequencesExt, FiniteSets

CONSTANTS
    Sends,     \* messages to send; a session sends one message at a time
    Files,     \* those with a file
    Captures,  \* screenshots: the user's toolbar click, or a command
    Tabs,
    TabOf,     \* the tab each of them works in
    MaxTries,  \* bound: send -> commands the driver may issue for it
    MaxMishaps,\* bound: changes the user makes to the pages, and calls that fail
    None

Works == Sends \cup Captures

ASSUME TrustedSendAssumption ==
    /\ Sends \cap Captures = {} /\ Files \subseteq Sends
    /\ TabOf \in [Works -> Tabs]
    /\ MaxTries \in [Sends -> Nat] /\ MaxMishaps \in Nat
    /\ None \notin Works \cup Tabs

\* The views of a send are its own: no two sessions share a tab (WriterTabs), and
\* one message of each is followed.  Only ViewInv of the proofs needs it.
ASSUME OneSendPerTab == \A s1, s2 \in Sends : TabOf[s1] = TabOf[s2] => s1 = s2

\* What the user types or picks is none of the messages.
ASSUME ForeignText == "foreign" \notin Sends \cup {None}

VARIABLES
    page,      \* tab -> its document: address, composer text and file chips,
               \* whether a file is still processed, privacy mask
    load,      \* files whose transfer the page holds
    bare,      \* files that go without a text
    act,       \* deliveryActivationTail: sends in the queue, owner first
    dtail,     \* debuggerTabTails: tab -> the last work that asked for it
    dprev,     \* work -> the work whose debugger session it awaits
    attached,  \* tab -> the work whose debugger session is attached
    pc,        \* work -> where its command is
    seen,      \* send -> address and text that stabilisation read
    tries,     \* send -> commands issued by the driver
    res,       \* send -> what the driver told the transport
    presses,   \* history: send -> mousePressed events that reached the page
    wrong,     \* history: a click landed in a page other than the validated one
    changed,   \* history: send -> the page changed after the last validation
    sent,      \* history: tab -> what became user messages
    mode,      \* capture -> "click" (toolbar) or "command" (capture_screenshot)
    image,     \* capture -> the picture Chrome returned
    pend,      \* context.pendingCapture
    leaked,    \* history: a picture was handed over that is not private, or not of its tab
    mishaps

pageVars == <<page, sent, load>>
sendVars == <<seen, tries, res, presses, wrong, changed, bare>>
shotVars == <<mode, image, pend, leaked>>
dbgVars == <<dtail, dprev, attached>>
vars == <<pageVars, act, dbgVars, pc, sendVars, shotVars, mishaps>>

Here == "here"
There == "there"
Foreign == "foreign"   \* a text the user typed, a file the user picked
NoPage == [url |-> None, text |-> None, file |-> {}]
Fresh == [url |-> Here, text |-> None, file |-> {}, busy |-> FALSE,
          refs |-> 0, shown |-> FALSE]
View(t) == [url |-> page[t].url, text |-> page[t].text, file |-> page[t].file]
Text(s) == IF s \in bare THEN None ELSE s
Image == [tab : Tabs, masked : BOOLEAN]

SendPCs == {"idle", "begin", "chunk", "commit", "ready", "queued", "focus", "prepare", "typed", "stabilise", "stable",
            "refocus", "wait", "check", "hover", "native", "pressing", "pressed", "confirm",
            "proof", "done"}

TypeOK ==
    /\ \A t \in Tabs :
        /\ page[t].url \in {Here, There}
        /\ page[t].text \in Sends \cup {Foreign, None}
        /\ page[t].file \subseteq Files \cup {Foreign} /\ page[t].busy \in BOOLEAN
        /\ page[t].refs \in Nat /\ page[t].shown \in BOOLEAN
        /\ page[t].shown => page[t].refs > 0
        /\ dtail[t] \in Works \cup {None} /\ attached[t] \in Works \cup {None}
        /\ sent[t] \subseteq [text : Sends \cup {Foreign, None},
                             file : SUBSET (Files \cup {Foreign})]
    /\ ToSet(act) \subseteq Sends /\ IsInjective(act)
    /\ \A w \in Works : dprev[w] \in Works \cup {None}
    /\ \A s \in Sends :
        /\ pc[s] \in SendPCs
        /\ changed[s] \in BOOLEAN
        /\ res[s] \in {"waiting", "ok", "refused", "uncertain"}
        /\ tries[s] \in 0..MaxTries[s] /\ presses[s] \in Nat
    /\ \A k \in Captures :
        /\ pc[k] \in {"idle", "wait", "mask", "shoot", "restore"}
        /\ mode[k] \in {"click", "command"} /\ image[k] \in Image \cup {None}
    /\ load \subseteq Files /\ bare \subseteq Files
    /\ {wrong, leaked} \subseteq BOOLEAN /\ mishaps \in 0..MaxMishaps

Init ==
    /\ page = [t \in Tabs |-> Fresh] /\ sent = [t \in Tabs |-> {}]
    /\ load = {} /\ bare = {}
    /\ act = <<>>
    /\ dtail = [t \in Tabs |-> None] /\ attached = [t \in Tabs |-> None]
    /\ dprev = [w \in Works |-> None]
    /\ pc = [w \in Works |-> "idle"] /\ mode = [k \in Captures |-> "click"]
    /\ seen = [s \in Sends |-> NoPage]
    /\ tries = [s \in Sends |-> 0]
    /\ res = [s \in Sends |-> "waiting"]
    /\ presses = [s \in Sends |-> 0] /\ changed = [s \in Sends |-> FALSE] /\ wrong = FALSE
    /\ image = [k \in Captures |-> None] /\ pend = None /\ leaked = FALSE
    /\ mishaps = 0


Go(w, p) == pc' = [pc EXCEPT ![w] = p]
Fault == mishaps < MaxMishaps /\ mishaps' = mishaps + 1

----------------------------------------------------------------------------
\* The pages, outside the worker.

\* The view of a tab changes, and with its composer go the transfers that hold
\* it: a send whose last validation is done is told.
Change(t, view, transfers) ==
    /\ page' = [page EXCEPT ![t] = view]
    /\ load' = transfers
    /\ changed' = [s \in Sends |-> changed[s] \/ (pc[s] = "pressing" /\ TabOf[s] = t)]

\* The user types in the composer, adds a file to it, removes its files, follows
\* a link within the page (the document and its mask stay), or reloads it.
UserActs(t) ==
    /\ Fault
    /\ LET empty == [page[t] EXCEPT !.text = None, !.file = {}, !.busy = FALSE]
           left == {s \in load : TabOf[s] # t}
       IN \/ Change(t, [page[t] EXCEPT !.text = Foreign], load)
          \/ Change(t, [page[t] EXCEPT !.file = @ \cup {Foreign}, !.busy = TRUE], load)
          \/ /\ page[t].file # {}
             /\ Change(t, [page[t] EXCEPT !.file = {}, !.busy = FALSE], load)
          \/ Change(t, [empty EXCEPT !.url = IF @ = Here THEN There ELSE Here], left)
          \/ Change(t, [empty EXCEPT !.refs = 0, !.shown = FALSE], left)
    /\ UNCHANGED <<sent, act, dbgVars, pc, seen, tries, res, presses, wrong, bare,
                   shotVars>>

\* ChatGPT has processed the files of the composer.
Processed(t) ==
    /\ page[t].busy
    /\ page' = [page EXCEPT ![t].busy = FALSE]
    /\ UNCHANGED <<sent, load, act, dbgVars, pc, sendVars, shotVars, mishaps>>

\* A transfer is idle for too long.
TransferExpires(s) ==
    /\ s \in load
    /\ load' = load \ {s}
    /\ UNCHANGED <<page, sent, act, dbgVars, pc, sendVars, shotVars, mishaps>>

\* The expiry timer of the mask removes it whatever its references.
MaskExpires(t) ==
    /\ page[t].refs > 0
    /\ page' = [page EXCEPT ![t] = [@ EXCEPT !.refs = 0, !.shown = FALSE]]
    /\ UNCHANGED <<sent, load, act, dbgVars, pc, sendVars, shotVars, mishaps>>

----------------------------------------------------------------------------
\* The debugger queue of a tab: each work awaits the one that asked before it.

Reserve(w) ==
    LET t == TabOf[w] IN
        /\ dprev' = [dprev EXCEPT ![w] = dtail[t]]
        /\ dtail' = [dtail EXCEPT ![t] = w]

\* Mutant of Released: the queue is forgotten although a work has asked since.
MutReleased(w) ==
    LET t == TabOf[w] IN
        /\ attached' = [attached EXCEPT ![t] = IF @ = w THEN None ELSE @]
        /\ dprev' = [x \in Works |-> IF dprev[x] = w THEN None ELSE dprev[x]]
        /\ dtail' = [dtail EXCEPT ![t] = None]

\* The session is detached and the works behind go on; the map forgets the
\* queue only when nobody asked meanwhile.
Released(w) ==
    LET t == TabOf[w] IN
        /\ attached' = [attached EXCEPT ![t] = IF @ = w THEN None ELSE @]
        /\ dprev' = [x \in Works |-> IF dprev[x] = w THEN None ELSE dprev[x]]
        /\ dtail' = [dtail EXCEPT ![t] = IF @ = w THEN None ELSE @]

MayAttach(w) == pc[w] = "wait" /\ dprev[w] = None

\* debugger.attach: Chrome refuses a second session on a tab.
Attach(w, next) ==
    /\ MayAttach(w) /\ attached[TabOf[w]] = None
    /\ attached' = [attached EXCEPT ![TabOf[w]] = w]
    /\ Go(w, next)
    /\ UNCHANGED <<dtail, dprev>>

----------------------------------------------------------------------------
\* The driver.

\* The send command reaches the activation queue.
Enqueue(s) == Go(s, "queued") /\ act' = Append(act, s)

\* send_text goes out, for the first time or again; a file is uploaded first.
Call(s) ==
    /\ pc[s] = "idle" /\ tries[s] < MaxTries[s]
    /\ IF s \in Files /\ tries[s] = 0 THEN Go(s, "begin") /\ UNCHANGED act
       ELSE Enqueue(s)
    /\ tries' = [tries EXCEPT ![s] = @ + 1]
    /\ UNCHANGED <<pageVars, dbgVars, seen, res, presses, wrong, changed, bare, shotVars, mishaps>>

\* The work that the driver or its helper does itself.
Driving(s) ==
    \/ pc[s] \in {"idle", "done", "begin", "chunk", "commit", "ready", "native", "proof"}
    \/ s \in Files /\ pc[s] \in {"pressing", "pressed"}

\* The driver's timeout or a lost connection: the worker goes on without it.
GiveUp(s) ==
    /\ ~Driving(s) /\ res[s] = "waiting" /\ Fault
    /\ res' = [res EXCEPT ![s] = "uncertain"]
    /\ UNCHANGED <<pageVars, act, dbgVars, pc, seen, tries, presses, wrong, changed, bare,
                   shotVars>>

\* The answer of a command: only "retry" (nothing was delivered, ask again) of a
\* send_text is followed by another one, within the driver's own window.
Answer(s, a) ==
    \/ a = "retry" /\ s \notin bare /\ res[s] = "waiting" /\ Go(s, "idle") /\ UNCHANGED res
    \/ /\ Go(s, "done")
       /\ res' = [res EXCEPT ![s] = IF @ # "waiting" THEN @
                                    ELSE IF a \in {"retry", "rejected"} THEN "refused" ELSE a]

----------------------------------------------------------------------------
\* A file is put into the composer: commands of the page, outside the queue.

KeepUpload == UNCHANGED <<sent, dbgVars, seen, tries, presses, wrong, changed, shotVars>>

\* A command of the upload that fails is the last one; a channel to the page that
\* closes during it leaves the driver in doubt, although nothing can have gone.
Refuse(s) == Answer(s, "rejected") /\ UNCHANGED act
Breaks(s) == Fault /\ (\E a \in {"rejected", "uncertain"} : Answer(s, a)) /\ UNCHANGED act

Goes(s, p) == Go(s, p) /\ UNCHANGED <<act, res>>

Clean(t) == page[t].text = None /\ page[t].file = {}

\* attachment_begin: a transfer for the composer as it is, which must be empty.
UploadBegin(s) ==
    /\ pc[s] = "begin"
    /\ \/ Clean(TabOf[s]) /\ load' = load \cup {s} /\ Goes(s, "chunk") /\ UNCHANGED mishaps
       \/ ~Clean(TabOf[s]) /\ UNCHANGED load /\ Refuse(s) /\ UNCHANGED mishaps
       \/ load' \in {load, load \cup {s}} /\ Breaks(s)
    /\ UNCHANGED <<page, bare>> /\ KeepUpload

\* attachment_chunk.
UploadChunk(s) ==
    /\ pc[s] = "chunk"
    /\ \/ s \in load /\ Goes(s, "commit") /\ UNCHANGED mishaps
       \/ s \notin load /\ Refuse(s) /\ UNCHANGED mishaps
       \/ Breaks(s)
    /\ UNCHANGED <<page, load, bare>> /\ KeepUpload

Staged(s) == [page EXCEPT ![TabOf[s]] = [@ EXCEPT !.file = page[TabOf[s]].file \cup {s},
                                                  !.busy = TRUE]]

\* attachment_commit: the file goes into the composer the transfer was begun
\* for, whatever has been typed or added there since.
UploadCommit(s) ==
    /\ pc[s] = "commit"
    /\ load' = load \ {s}
    /\ \/ s \in load /\ page' = Staged(s) /\ Goes(s, "ready") /\ UNCHANGED mishaps
       \/ s \notin load /\ Refuse(s) /\ UNCHANGED <<page, mishaps>>
       \/ s \in load /\ page' \in {page, Staged(s)} /\ Breaks(s)
    /\ UNCHANGED bare /\ KeepUpload

\* The chip of the file is shown and no file is processed.
ChipReady(s) == s \in page[TabOf[s]].file /\ ~page[TabOf[s]].busy

\* Mutant of UploadReady: the wait for the chip has no deadline.
MutUploadReady(s) ==
    /\ pc[s] = "ready" /\ ChipReady(s) /\ Enqueue(s) /\ bare' \in {bare, bare \cup {s}}
    /\ UNCHANGED <<page, load, res, mishaps>> /\ KeepUpload

\* await_attachment: ready within 60 seconds, or not; then send_text or, when the
\* message has no text, send_bare.
UploadReady(s) ==
    /\ pc[s] = "ready"
    /\ \/ ChipReady(s) /\ Enqueue(s) /\ bare' \in {bare, bare \cup {s}} /\ UNCHANGED <<res, mishaps>>
       \/ ~ChipReady(s) /\ Refuse(s) /\ UNCHANGED <<bare, mishaps>>
       \/ Fault /\ Refuse(s) /\ UNCHANGED bare
    /\ UNCHANGED <<page, load>> /\ KeepUpload

----------------------------------------------------------------------------
\* A send command in the worker.

\* Mutant of End: the slot of the activation queue is not released.
MutEnd(s, a) ==
    /\ Answer(s, a)
    /\ seen' = [seen EXCEPT ![s] = NoPage]
    /\ UNCHANGED act

\* The command ends and leaves the activation queue; a slot that was never
\* acquired resolves with the one before it, which is the same.
End(s, a) ==
    /\ Answer(s, a)
    /\ act' = RemoveFirst(act, s)
    /\ seen' = [seen EXCEPT ![s] = NoPage]

\* A command goes on, or its deadline has passed and it ends.
OnTime(s, p) == Go(s, p) /\ UNCHANGED <<act, seen, res>>
Late(s) == End(s, "retry")

KeepSend == UNCHANGED <<tries, bare, shotVars>>

\* The queue: the first goes on, one whose deadline passes leaves.
Acquire(s) ==
    /\ pc[s] = "queued"
    /\ (Head(act) = s /\ OnTime(s, "focus")) \/ Late(s)
    /\ UNCHANGED <<pageVars, dbgVars, presses, wrong, changed, mishaps>> /\ KeepSend

\* focusWriterTab, before the text is typed and again before the click: past the
\* deadline, or when the tab cannot be focused, the driver may try again.
Focus(s) ==
    /\ \/ pc[s] = "focus" /\ OnTime(s, "prepare") /\ UNCHANGED <<dprev, dtail>>
       \/ pc[s] = "refocus" /\ OnTime(s, "wait") /\ Reserve(s)
       \/ pc[s] \in {"focus", "refocus"} /\ Late(s) /\ UNCHANGED <<dprev, dtail>>
    /\ UNCHANGED <<pageVars, attached, presses, wrong, changed, mishaps>> /\ KeepSend

\* prepare_text replaces whatever the composer holds...
PrepareType(s) ==
    /\ pc[s] = "prepare" /\ s \notin bare
    /\ page' = [page EXCEPT ![TabOf[s]].text = s]
    /\ Go(s, "typed")
    /\ UNCHANGED <<sent, load, act, dbgVars, seen, res, presses, wrong, changed, mishaps>>
    /\ KeepSend

\* A message to a tab whose content script is gone with its document fails.
NoScript(s) == Fault /\ End(s, "retry")

\* ... and waits until it shows the text and the send button is enabled.
PrepareCheck(s) ==
    /\ pc[s] = "typed"
    /\ \/ page[TabOf[s]].text = s /\ OnTime(s, "stabilise") /\ UNCHANGED mishaps
       \/ page[TabOf[s]].text # s /\ End(s, "retry") /\ UNCHANGED mishaps
       \/ NoScript(s)
    /\ UNCHANGED <<pageVars, dbgVars, presses, wrong, changed>> /\ KeepSend

\* send_bare only looks at the chip; it may be left in doubt as an upload is.
PrepareBare(s) ==
    /\ pc[s] = "prepare" /\ s \in bare
    /\ \/ ChipReady(s) /\ OnTime(s, "stabilise") /\ UNCHANGED mishaps
       \/ ~ChipReady(s) /\ End(s, "retry") /\ UNCHANGED mishaps
       \/ NoScript(s) \/ (Fault /\ End(s, "uncertain"))
    /\ UNCHANGED <<pageVars, dbgVars, presses, wrong, changed>> /\ KeepSend

\* The send button is enabled, and the file that is expected is there.
Sendable(s) ==
    LET p == page[TabOf[s]]
    IN (p.text # None \/ p.file # {}) /\ (s \in Files => s \in p.file)

\* The injected function reads the composer first...
StabiliseStart(s) ==
    /\ pc[s] = "stabilise"
    /\ IF ~Sendable(s) THEN End(s, "rejected")
       ELSE /\ seen' = [seen EXCEPT ![s] = View(TabOf[s])]
            /\ Go(s, "stable") /\ UNCHANGED <<act, res>>
    /\ UNCHANGED <<pageVars, dbgVars, presses, wrong, changed, mishaps>> /\ KeepSend

Stable(s) ==
    /\ Sendable(s) /\ ~page[TabOf[s]].busy
    /\ seen[s].text \in {None, page[TabOf[s]].text}

FirstChip(file) == IF file = {} THEN {{}} ELSE {{x} : x \in file}

\* What the click is validated against: the address now, the text first read,
\* and the first chip.
Prepared(s, chips) ==
    seen' = [seen EXCEPT ![s] = [@ EXCEPT !.url = page[TabOf[s]].url, !.file = chips]]

\* The worker has prepared a file: it leaves the queue, and the driver goes on if
\* it still waits.
Handover(s) ==
    /\ act' = RemoveFirst(act, s)
    /\ IF res[s] = "waiting" THEN Go(s, "native") /\ Prepared(s, {s})
       ELSE Go(s, "done") /\ seen' = [seen EXCEPT ![s] = NoPage]
    /\ UNCHANGED res

\* ... and the address last; between them text and button stay the same.
StabiliseEnd(s) ==
    /\ pc[s] = "stable"
    /\ \/ Stable(s) /\ s \in Files /\ Handover(s) /\ UNCHANGED mishaps
       \/ /\ Stable(s) /\ s \notin Files
          /\ \E chips \in FirstChip(page[TabOf[s]].file) : Prepared(s, chips)
          /\ Go(s, "refocus") /\ UNCHANGED <<act, res, mishaps>>
       \/ ~Stable(s) /\ End(s, "rejected") /\ UNCHANGED mishaps
       \/ Fault /\ End(s, "rejected")
    /\ UNCHANGED <<pageVars, dbgVars, presses, wrong, changed>> /\ KeepSend

\* dispatchTrustedSendClick opens its debugger session, or is refused it.
AttachSend(s) ==
    /\ s \in Sends
    /\ \/ Attach(s, "check") /\ UNCHANGED <<act, seen, res, mishaps>>
       \/ /\ MayAttach(s)
          /\ (attached[TabOf[s]] # None /\ UNCHANGED mishaps) \/ Fault
          /\ End(s, "rejected") /\ Released(s)
    /\ UNCHANGED <<pageVars, presses, wrong, changed>> /\ KeepSend

\* Mutant of Valid: only the address is compared.
MutValid(s) == page[TabOf[s]].url = seen[s].url

\* The page still shows the address, the text and the file that stabilisation
\* saw, and can send them.
Valid(s) ==
    LET p == page[TabOf[s]]
    IN /\ p.url = seen[s].url /\ p.text = seen[s].text /\ seen[s].file \subseteq p.file
       /\ Sendable(s) /\ ~p.busy

\* The session ends without a click.
Abandon(s, a) == End(s, a) /\ Released(s)

\* The first validation, and the one after the pointer was moved there: the
\* deadline is looked at while the button flickers, and last before the click.
Check(s) ==
    /\ pc[s] = "check"
    /\ \/ Valid(s) /\ OnTime(s, "hover") /\ UNCHANGED <<dbgVars, mishaps>>
       \/ ~Valid(s) /\ Abandon(s, "rejected") /\ UNCHANGED mishaps
       \/ Fault /\ \E a \in {"rejected", "retry"} : Abandon(s, a)
    /\ UNCHANGED <<pageVars, presses, wrong, changed>> /\ KeepSend

Hover(s) ==
    /\ pc[s] = "hover"
    /\ \/ /\ Valid(s) /\ OnTime(s, "pressing")
          /\ UNCHANGED <<dbgVars, mishaps>>
       \/ ~Valid(s) /\ Abandon(s, "rejected") /\ UNCHANGED mishaps
       \/ Valid(s) /\ Abandon(s, "retry") /\ UNCHANGED mishaps
       \/ Fault /\ Abandon(s, "rejected")
    /\ changed' = [changed EXCEPT ![s] = FALSE]
    /\ UNCHANGED <<pageVars, presses, wrong>> /\ KeepSend

\* The press reaches the page of t: what its composer holds becomes a message.
Pressed(s, t) ==
    /\ presses' = [presses EXCEPT ![s] = @ + 1]
    /\ sent' = [sent EXCEPT ![t] = @ \cup {[text |-> page[t].text, file |-> page[t].file]}]
    /\ page' = [page EXCEPT ![t] = [@ EXCEPT !.text = None, !.file = {}, !.busy = FALSE]]

\* mousePressed, or the press of the helper.
Press(s) ==
    /\ pc[s] = "pressing"
    /\ LET v == View(TabOf[s]) IN
        /\ Pressed(s, TabOf[s])
        /\ wrong' = (wrong \/ (~changed[s] /\ (v.url # seen[s].url \/ v.text # seen[s].text)))
    /\ OnTime(s, "pressed")
    /\ UNCHANGED <<load, dbgVars, changed, mishaps>> /\ KeepSend

\* Mutant of LostClick: a debugger error is taken for a click that never was.
MutLostClick(s) == End(s, "retry")

\* What a click whose confirmation is lost is answered with.
LostClick(s) == OnTime(s, "confirm")

\* Chrome confirms the click, or its answer is lost after or before it.
PressAnswer(s) ==
    /\ s \notin Files
    /\ \/ pc[s] = "pressed" /\ End(s, "ok") /\ UNCHANGED mishaps
       \/ pc[s] \in {"pressing", "pressed"} /\ Fault /\ LostClick(s)
    /\ Released(s)
    /\ UNCHANGED <<pageVars, presses, wrong, changed>> /\ KeepSend

\* Never a second click: a new user message that shows the text, or uncertain.
Confirm(s) ==
    /\ pc[s] = "confirm"
    /\ \/ (\E m \in sent[TabOf[s]] : m.text = s) /\ End(s, "ok")
       \/ End(s, "uncertain")
    /\ UNCHANGED <<pageVars, dbgVars, presses, wrong, changed, mishaps>> /\ KeepSend

----------------------------------------------------------------------------
\* A prepared file: the driver starts the macOS helper.

\* Mutant of NativeTarget: the text is not compared.
MutNativeTarget(s) == page[TabOf[s]].url = seen[s].url /\ s \in page[TabOf[s]].file

\* The window shows the address that was prepared, and a composer that holds
\* the text of the message and its file; other files are not looked at.
NativeTarget(s) ==
    LET p == page[TabOf[s]]
    IN p.url = seen[s].url /\ p.text = Text(s) /\ s \in p.file

\* The helper looks at the page, last with Chrome in front.  It may refuse any
\* window: another tab or program may be in front, a permission may be missing.
\* A helper that dies or takes too long leaves the driver in doubt.
NativeCheck(s) ==
    /\ pc[s] = "native"
    /\ \/ NativeTarget(s) /\ OnTime(s, "pressing") /\ UNCHANGED mishaps
       \/ End(s, "rejected") /\ UNCHANGED mishaps
       \/ Fault /\ End(s, "uncertain")
    /\ changed' = [changed EXCEPT ![s] = FALSE]
    /\ UNCHANGED <<pageVars, dbgVars, presses, wrong>> /\ KeepSend

\* It reports the press; or macOS reports a failure, before or after the press.
NativeAnswer(s) ==
    /\ s \in Files
    /\ \/ pc[s] = "pressed" /\ OnTime(s, "proof") /\ UNCHANGED mishaps
       \/ pc[s] \in {"pressing", "pressed"} /\ Fault /\ End(s, "uncertain")
    /\ UNCHANGED <<pageVars, dbgVars, presses, wrong, changed>> /\ KeepSend

\* A user message shows the file, and the text if there is one.
Shows(s) == \E m \in sent[TabOf[s]] : s \in m.file /\ (s \in bare \/ m.text = s)

\* _confirm_native_attachment_delivery.
Proof(s) ==
    /\ pc[s] = "proof"
    /\ (Shows(s) /\ End(s, "ok")) \/ End(s, "uncertain")
    /\ UNCHANGED <<pageVars, dbgVars, presses, wrong, changed, mishaps>> /\ KeepSend

----------------------------------------------------------------------------
\* Screenshots.

KeepShot == UNCHANGED <<act, sendVars, sent, load>>

\* Picture g leaves the worker as one of tab t.
Give(g, t) == leaked' = (leaked \/ ~g.masked \/ g.tab # t)

\* The toolbar click captures; the command hands over what the click kept for
\* this tab, refuses what it kept for another, and captures when there is none.
Shot(k) ==
    /\ pc[k] = "idle"
    /\ \/ Go(k, "wait") /\ Reserve(k) /\ UNCHANGED <<mode, pend, leaked>>
       \/ /\ pend' = None
          /\ \/ /\ mode' = [mode EXCEPT ![k] = "command"]  \* none, or older than its TTL
                /\ Go(k, "wait") /\ Reserve(k) /\ UNCHANGED leaked
             \/ /\ pend # None /\ UNCHANGED <<mode, pc, dprev, dtail>>
                /\ IF pend.tab = TabOf[k] THEN Give(pend, TabOf[k]) ELSE UNCHANGED leaked
    /\ UNCHANGED <<page, attached, image, mishaps>> /\ KeepShot

\* Mutant of EndShot: a picture is handed over whatever became of the mask.
MutEndShot(k, ok) ==
    /\ Go(k, "idle")
    /\ Released(k)
    /\ IF image[k] # None THEN Give(image[k], TabOf[k]) ELSE UNCHANGED leaked
    /\ image' = [image EXCEPT ![k] = None] /\ mode' = [mode EXCEPT ![k] = "click"]
    /\ UNCHANGED pend

\* The capture fails or ends: the click keeps its picture, the command returns it.
EndShot(k, ok) ==
    /\ Go(k, "idle")
    /\ Released(k)
    /\ IF mode[k] = "click"
       THEN pend' = (IF ok THEN image[k] ELSE None) /\ UNCHANGED leaked
       ELSE /\ IF ok THEN Give(image[k], TabOf[k]) ELSE UNCHANGED leaked
            /\ UNCHANGED pend
    /\ image' = [image EXCEPT ![k] = None] /\ mode' = [mode EXCEPT ![k] = "click"]

AttachShot(k) ==
    /\ k \in Captures
    /\ \/ Attach(k, "mask") /\ UNCHANGED <<shotVars, mishaps>>
       \/ /\ MayAttach(k)
          /\ (attached[TabOf[k]] # None /\ UNCHANGED mishaps) \/ Fault
          /\ EndShot(k, FALSE)
    /\ UNCHANGED page /\ KeepShot

\* The page answers privacy_mask_begin: a mask still shown gets one more reference.
Masked(t) ==
    [page EXCEPT ![t] = [@ EXCEPT !.refs = IF page[t].shown THEN page[t].refs + 1 ELSE 1,
                                  !.shown = TRUE]]

\* privacy_mask_begin fails, or its answer is lost: no picture is taken.
NoMask(k) == Fault /\ EndShot(k, FALSE) /\ UNCHANGED page

MaskBegin(k) ==
    /\ pc[k] = "mask"
    /\ \/ /\ page' = Masked(TabOf[k])
          /\ Go(k, "shoot") /\ UNCHANGED <<dbgVars, shotVars, mishaps>>
       \/ NoMask(k)
    /\ KeepShot

\* Page.captureScreenshot: the picture shows what the tab shows now.
Shoot(k) ==
    /\ pc[k] = "shoot"
    /\ \/ /\ image' = [image EXCEPT ![k] = [tab |-> TabOf[k], masked |-> page[TabOf[k]].shown]]
          /\ UNCHANGED mishaps
       \/ Fault /\ UNCHANGED image
    /\ Go(k, "restore")
    /\ UNCHANGED <<page, dbgVars, mode, pend, leaked>> /\ KeepShot

\* The page answers privacy_mask_restore only in the document whose mask is
\* active, and removes the mask with its last reference.
Restored(k) == page[TabOf[k]].refs > 0
Unmasked(t) == [page EXCEPT ![t] = [@ EXCEPT !.refs = page[t].refs - 1,
                                             !.shown = page[t].shown /\ page[t].refs > 1]]

\* Without an answer the worker removes the mask by force, which may fail too.
Forced(t) == {page, [page EXCEPT ![t].shown = FALSE]}

\* A picture whose mask could not be restored is dropped.
Restore(k) ==
    /\ pc[k] = "restore"
    /\ \/ /\ Restored(k) /\ page' = Unmasked(TabOf[k])
          /\ EndShot(k, image[k] # None) /\ UNCHANGED mishaps
       \/ ~Restored(k) /\ EndShot(k, FALSE) /\ UNCHANGED <<page, mishaps>>
       \/ Fault /\ page' \in Forced(TabOf[k]) /\ EndShot(k, FALSE)
    /\ KeepShot

----------------------------------------------------------------------------
UploadStep(s) == UploadBegin(s) \/ UploadChunk(s) \/ UploadCommit(s) \/ UploadReady(s)

SendStep(s) ==
    \/ UploadStep(s) \/ PrepareBare(s) \/ NativeCheck(s) \/ NativeAnswer(s) \/ Proof(s)
    \/ Acquire(s) \/ Focus(s) \/ PrepareType(s) \/ PrepareCheck(s)
    \/ StabiliseStart(s) \/ StabiliseEnd(s) \/ AttachSend(s) \/ Check(s) \/ Hover(s)
    \/ Press(s) \/ PressAnswer(s) \/ Confirm(s)

ShotStep(k) == AttachShot(k) \/ MaskBegin(k) \/ Shoot(k) \/ Restore(k)

Next ==
    \/ \E t \in Tabs : UserActs(t) \/ Processed(t) \/ MaskExpires(t)
    \/ \E s \in Sends : TransferExpires(s) \/ Call(s) \/ GiveUp(s) \/ SendStep(s)
    \/ \E k \in Captures : Shot(k) \/ ShotStep(k)

\* Chrome and the pages answer, and the worker goes on.
Fairness ==
    /\ \A s \in Sends : WF_vars(SendStep(s))
    /\ \A k \in Captures : WF_vars(ShotStep(k))

Spec == Init /\ [][Next]_vars /\ Fairness

----------------------------------------------------------------------------
\* Properties.

\* One text is clicked at most once, whatever the driver retries, and a send
\* that the driver calls refused (the transport may send it again) was not
\* clicked at all, not even by a command that still runs in the worker.
ClickedOnce ==
    \A s \in Sends :
        /\ presses[s] <= 1
        /\ res[s] = "refused" \/ (tries[s] > 1 /\ pc[s] = "queued") => presses[s] = 0

\* A press never lands on an address or a text that differs from what
\* stabilisation saw, unless the page changed after the last validation.
ClickValidated == ~wrong

\* The helper's press sends the file, and never with a text that is not its own
\* (whatever the user typed while it was uploaded), unless the page changed after
\* the helper's last look.
FileWithItsText ==
    \A s \in Files : presses[s] > 0 /\ ~changed[s] =>
        \A m \in sent[TabOf[s]] : s \in m.file /\ m.text = Text(s)

\* A send or a screenshot never meets another session of the extension on its
\* tab: attach never fails for that reason.
DebuggerExclusive ==
    \A w \in Works : MayAttach(w) => attached[TabOf[w]] = None

\* A picture that leaves the worker was taken behind the mask, in the tab it
\* was asked for, although the page may be reloaded or the mask expire between
\* the mask and the picture.
PrivateImages == ~leaked

\* Every send command is answered: neither queue stays blocked.
SendsAnswered == \A s \in Sends : (pc[s] \notin {"idle", "done"}) ~> (pc[s] \in {"idle", "done"})
=============================================================================
