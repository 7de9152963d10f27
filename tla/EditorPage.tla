------------------------------ MODULE EditorPage -------------------------------
(***************************************************************************)
(* One file in the workspace page of one user: the editor and its binding  *)
(* to the live document, the preview of a snapshot, the draft, autosaving, *)
(* and what the page knows of the stored file, while a collaborator may    *)
(* edit and save the same file, which has been opened before.              *)
(*                                                                         *)
(* A text is the set of edits it contains.  The snapshot that is previewed *)
(* or loaded, and that a rewind goes back to, has none of them.            *)
(***************************************************************************)
EXTENDS Naturals, FiniteSets

CONSTANTS
    MaxEdit,       \* bound: edits, by whomever
    MaxTurn,       \* bound: what users and environment do besides editing
    Environment    \* which of "leave", "preview", "rewind", "load", "suggest",
                   \* "other", "failure" may happen

Edit == 1 .. MaxEdit
Text == SUBSET Edit

ASSUME EditorAssumption == MaxEdit \in Nat /\ MaxTurn \in Nat

VARIABLES
    text,       \* the live document, or what it is opened with next
    persisted,  \* what its history holds
    stored,     \* the content of the stored file
    other,      \* the collaborator: in the document or not, and its save
    selected,   \* the file is the active one
    session,    \* the document session: "none", "joining" or "live"
    editor,     \* whether it is mounted, the value of its model, and whether the
                \* hook knows an editor of the file, if only one that is gone
    binding,    \* bindings of that model to the document that are alive,
                \* of which bindingRef.current is one or none
    binds,      \* calls of bindEditorToLiveDoc that wait for the module
    module,     \* y-monaco has been loaded
    cached,     \* the file's content in the cache of the query
    fetch,      \* the query is in flight
    draft,      \* draftsByFileId[file]
    blocked,    \* autosaveBlockedFileId is the file
    nonce,      \* a version has been loaded: editorInstanceNonce # 0
    save,       \* the saves in flight, of the page and of a suggestion
    preview,    \* previewState, the restoring of the head, the request, and the
                \* model it was made with: the editor's, one that is gone, or none
    drawer,     \* the timeline drawer is open
    listing,    \* the list of the timeline is asked for, and the head of the one
                \* that is shown, if any
    rewind,     \* a rewind in flight, its head, and whether a preview was active
    suggestion, \* the suggestion that is shown instead of the editor
    made,       \* edits the document has had and nobody has asked to undo
    edits,      \* edits so far
    turns,      \* what users and environment did so far
    upset       \* which of the races below have happened

document == <<text, persisted, stored, other>>
page == <<selected, cached, fetch, draft, blocked, nonce, save>>
live == <<session, editor, binding, binds, module>>
timeline == <<preview, drawer, listing, rewind>>
history == <<made, edits, turns, upset>>
vars == <<document, page, live, timeline, suggestion, history>>

None == [on |-> FALSE, text |-> {}]
Some(t) == [on |-> TRUE, text |-> t]
Optional == {None} \cup {Some(t) : t \in Text}
Race == {"left", "twice", "reverted", "outdated", "overlap", "unseen", "astray"}

TypeOK ==
    /\ {text, persisted, stored, cached, made} \subseteq Text
    /\ other \in [here : BOOLEAN, save : Optional]
    /\ {selected, fetch, module, blocked, nonce, drawer} \subseteq BOOLEAN
    /\ session \in {"none", "joining", "live"}
    /\ editor \in [mounted : BOOLEAN, value : Text, known : BOOLEAN]
    /\ binding \in [alive : Nat, held : BOOLEAN]
    /\ binding.held => binding.alive > 0
    /\ binds \in Nat
    /\ draft \in Optional /\ suggestion \in Optional
    /\ save \in [{"page", "suggestion"} -> [pc : {"none", "sent", "stored"}, text : Text]]
    /\ preview \in [active : BOOLEAN, ending : BOOLEAN, asked : {"no", "sent", "read"},
                   model : {"none", "same", "gone"}]
    /\ listing \in [asked : BOOLEAN, head : Optional]
    /\ rewind \in [pc : {"none", "sent", "applied", "listing"}, head : Text, previewed : BOOLEAN]
    /\ edits \in 0 .. MaxEdit /\ turns \in 0 .. MaxTurn /\ upset \subseteq Race

NoSave == [pc |-> "none", text |-> {}]
NoBinding == [alive |-> 0, held |-> FALSE]
NoPreview == [active |-> FALSE, ending |-> FALSE, asked |-> "no", model |-> "none"]
NoListing == [asked |-> FALSE, head |-> None]
NoRewind == [pc |-> "none", head |-> {}, previewed |-> FALSE]
Unmounted == [mounted |-> FALSE, value |-> {}, known |-> FALSE]
Mounted(t) == [mounted |-> TRUE, value |-> t, known |-> TRUE]

Init ==
    /\ text = {} /\ persisted = {} /\ stored = {} /\ cached = {} /\ made = {}
    /\ other = [here |-> "other" \in Environment, save |-> None]
    /\ selected = TRUE /\ session = "joining" /\ editor = Unmounted
    /\ binding = NoBinding /\ binds = 0 /\ module = FALSE
    /\ fetch = FALSE /\ draft = None /\ blocked = FALSE /\ nonce = FALSE
    /\ save = [s \in {"page", "suggestion"} |-> NoSave]
    /\ preview = NoPreview /\ drawer = FALSE /\ listing = NoListing /\ rewind = NoRewind
    /\ suggestion = None /\ edits = 0 /\ turns = 0 /\ upset = {}

-------------------------------------------------------------------------------
(* The value of the editor, the draft and the document follow each other.  *)

Turn(kind) == kind \in Environment /\ turns < MaxTurn /\ turns' = turns + 1
Note(races) == upset' = upset \cup races

\* editorValue and localIsDirty
Shown == IF draft.on THEN draft.text ELSE cached
Dirty == selected /\ draft.on /\ draft.text # cached

\* The model changes to t: EditorPane's onChange makes it the draft, and lets
\* autosaving resume.
Changed(t) ==
    /\ editor' = [editor EXCEPT !.value = t]
    /\ draft' = Some(t) /\ blocked' = FALSE

\* destroyBinding
Unbound == IF binding.held THEN [alive |-> binding.alive - 1, held |-> FALSE] ELSE binding

\* What a value that is set in the model does to the document: nothing, unless
\* a binding is still alive that nobody holds.
Through(b, t) == IF b.alive > 0 THEN t ELSE text

CanBind == editor.mounted /\ session = "live"

\* Faulty: the binding before stays.
StackedBind ==
    IF module THEN binding' = [alive |-> binding.alive + 1, held |-> TRUE] /\ UNCHANGED binds
    ELSE binds' = binds + 1 /\ UNCHANGED binding

\* bindEditorToLiveDoc, if there is an editor and a document: the first time, it
\* waits for the module to load.
Bind ==
    IF module THEN binding' = [alive |-> Unbound.alive + 1, held |-> TRUE] /\ UNCHANGED binds
    ELSE binds' = binds + 1 /\ binding' = Unbound

\* clearPreviewState: what is asked for still comes.
Ended == [preview EXCEPT !.active = FALSE, !.ending = FALSE]

\* A new binding sets the value of the model if it differs.
Follow(t) ==
    IF module /\ editor.value # t THEN Changed(t) ELSE UNCHANGED <<editor, draft, blocked>>

ModuleLoads ==
    /\ ~module /\ binds > 0
    /\ module' = TRUE /\ binds' = 0
    /\ binding' = [alive |-> binding.alive + binds, held |-> TRUE]
    /\ IF editor.value # text THEN Changed(text) ELSE UNCHANGED <<editor, draft, blocked>>
    /\ preview' = IF preview.ending THEN Ended ELSE preview
    /\ UNCHANGED <<document, selected, cached, fetch, nonce, save, session, drawer, listing, rewind,
                   suggestion, history>>

-------------------------------------------------------------------------------
(* The active file                                                         *)

Select ==
    /\ ~selected
    /\ selected' = TRUE /\ session' = "joining"
    /\ listing' = [listing EXCEPT !.asked = drawer]
    /\ UNCHANGED <<document, cached, fetch, draft, blocked, nonce, save, editor, binding, binds,
                   module, preview, drawer, rewind, suggestion, history>>

\* The editor mounts with what the page shows, and is bound if the document is
\* there.
Mount ==
    /\ selected /\ ~editor.mounted /\ ~suggestion.on
    /\ IF session # "live" THEN /\ editor' = Mounted(Shown)
                                /\ UNCHANGED <<binding, binds, draft, blocked>>
       ELSE /\ Bind
            /\ IF module /\ Shown # text
               THEN /\ editor' = Mounted(text)
                    /\ draft' = Some(text) /\ blocked' = FALSE
               ELSE editor' = Mounted(Shown) /\ UNCHANGED <<draft, blocked>>
    /\ UNCHANGED <<document, selected, cached, fetch, nonce, save, session, module, timeline,
                   suggestion, made, edits, turns>>
    /\ Note(IF session = "live" /\ binds > 0 THEN {"twice"} ELSE {})

Joined ==
    /\ session = "joining"
    /\ session' = "live"
    /\ IF editor.mounted THEN Bind /\ Follow(text)
       ELSE UNCHANGED <<binding, binds, editor, draft, blocked>>
    /\ Note(IF editor.mounted /\ binds > 0 THEN {"twice"} ELSE {})
    /\ UNCHANGED <<document, selected, cached, fetch, nonce, save, module, timeline, suggestion,
                   made, edits, turns>>

\* The model of the editor is disposed of, with its bindings; requests that were
\* made with it stay in flight.
Dismounted ==
    /\ binding' = NoBinding /\ binds' = 0
    /\ rewind' = [rewind EXCEPT !.previewed = FALSE]
Forsaken == IF preview.model = "same" THEN "gone" ELSE preview.model

Saving == \E s \in DOMAIN save : save[s].pc # "none"

\* Another file becomes the active one, or the tab is closed, which drops the
\* draft.  The room that nobody has open is opened from its history next.
Deselect ==
    /\ Turn("leave") /\ selected
    /\ selected' = FALSE /\ session' = "none"
    /\ Dismounted /\ editor' = Unmounted /\ listing' = NoListing
    /\ preview' = [Ended EXCEPT !.model = Forsaken]
    /\ \/ UNCHANGED <<draft, blocked>>
       \/ draft' = None /\ blocked' = FALSE
    /\ text' = IF other.here THEN text ELSE persisted
    /\ Note(IF text' # text \/ Saving \/ (draft.on /\ ~draft'.on) THEN {"left"} ELSE {})
    /\ made' = made \cap text'
    /\ UNCHANGED <<persisted, stored, other, cached, fetch, nonce, save, module, drawer,
                   suggestion, edits>>

-------------------------------------------------------------------------------
(* Editing                                                                 *)

NewEdit == edits + 1

\* An edit in the editor reaches the document through its binding.
Type ==
    /\ editor.mounted /\ edits < MaxEdit
    /\ edits' = NewEdit
    /\ Changed(editor.value \cup {NewEdit})
    /\ text' = Through(binding, editor.value \cup {NewEdit})
    /\ made' = IF binding.alive > 0 THEN made \cup {NewEdit} ELSE made
    /\ UNCHANGED <<persisted, stored, other, selected, cached, fetch, nonce, save, session,
                   binding, binds, module, timeline, suggestion, turns, upset>>

\* What the document becomes by somebody else, a bound editor shows.
Received(t) ==
    /\ text' = t
    /\ IF binding.alive > 0 THEN Changed(t) ELSE UNCHANGED <<editor, draft, blocked>>

OtherTypes ==
    /\ other.here /\ edits < MaxEdit
    /\ edits' = NewEdit /\ made' = made \cup {NewEdit}
    /\ Received(text \cup {NewEdit})
    /\ UNCHANGED <<persisted, stored, other, selected, cached, fetch, nonce, save, session,
                   binding, binds, module, timeline, suggestion, turns, upset>>

-------------------------------------------------------------------------------
(* Saving.  The stored file is the text of the request; the history gets   *)
(* the document, when the page tells it that it has saved.                 *)

Send ==
    /\ save' = [save EXCEPT !["page"] = [pc |-> "sent", text |-> Shown]]
    /\ Note(IF other.save.on THEN {"overlap"} ELSE {})
    /\ UNCHANGED <<document, selected, cached, fetch, draft, blocked, nonce, live, timeline,
                   suggestion, made, edits, turns>>

\* isPending is that of the save that was started last: of two that overlap, the
\* model waits for both (bound).
CanSave == Dirty /\ ~Saving

\* 200 ms without a change; also while a snapshot is previewed.
Autosave == CanSave /\ ~blocked /\ Send

\* The shortcut is refused during a preview.
SaveNow == CanSave /\ blocked /\ ~preview.active /\ Send

\* The answer, and the event that makes the pages of the project ask anew.
Store(s) ==
    /\ save[s].pc = "sent"
    /\ stored' = save[s].text /\ fetch' = TRUE
    /\ save' = [save EXCEPT ![s].pc = "stored"]
    /\ UNCHANGED <<text, persisted, other, selected, cached, draft, blocked, nonce, live,
                   timeline, suggestion, history>>

\* The draft stays, and so does a suggestion.
SaveFails(s) ==
    /\ Turn("failure") /\ save[s].pc = "sent"
    /\ save' = [save EXCEPT ![s] = NoSave]
    /\ UNCHANGED <<document, selected, cached, fetch, draft, blocked, nonce, live, timeline,
                   suggestion, made, edits, upset>>

\* Faulty: a draft that was changed meanwhile goes too.
HastyDraftAfter(t) == None
DraftAfter(t) == IF draft.on /\ draft.text # t THEN draft ELSE None

\* The draft becomes d, and the file in the cache c.  Once a version has been
\* loaded, EditorPane writes into its model what the page shows then, and the page
\* is not told.
Refresh(d, c) ==
    LET shown == IF d.on THEN d.text ELSE c
        reverts == nonce /\ editor.mounted /\ editor.value # shown
    IN
    /\ draft' = d /\ cached' = c
    /\ editor' = IF reverts THEN [editor EXCEPT !.value = shown] ELSE editor
    /\ text' = IF reverts THEN Through(binding, shown) ELSE text
    /\ Note(IF reverts THEN {"reverted"} ELSE {})

\* onSuccess: the cache, the draft, and markSaved, which the server ignores
\* unless the socket is in the room.
Saved(s) ==
    /\ save[s].pc = "stored"
    /\ save' = [save EXCEPT ![s] = NoSave]
    /\ Refresh(DraftAfter(save[s].text), save[s].text) /\ fetch' = TRUE
    /\ persisted' = IF session = "live" THEN text' ELSE persisted
    /\ suggestion' = IF s = "suggestion" THEN None ELSE suggestion
    /\ UNCHANGED <<stored, other, selected, blocked, nonce, session, binding, binds, module,
                   timeline, made, edits, turns>>

\* The list of the files is there; whatever stores the file makes a query in
\* flight start again.
Fetched ==
    /\ fetch /\ fetch' = FALSE
    /\ Refresh(draft, stored)
    /\ UNCHANGED <<persisted, stored, other, selected, blocked, nonce, save, session, binding,
                   binds, module, timeline, suggestion, made, edits, turns>>

-------------------------------------------------------------------------------
(* The collaborator: its page saves the same file.                         *)

OtherSends ==
    /\ other.here /\ ~other.save.on /\ text # stored
    /\ other' = [other EXCEPT !.save = Some(text)]
    /\ Note(IF Saving THEN {"overlap"} ELSE {})
    /\ UNCHANGED <<text, persisted, stored, page, live, timeline, suggestion, made, edits,
                   turns>>

OtherStored ==
    /\ other.save.on
    /\ stored' = other.save.text /\ fetch' = TRUE
    /\ other' = [other EXCEPT !.save = None]
    /\ persisted' = IF other.here THEN text ELSE persisted
    /\ UNCHANGED <<text, selected, cached, draft, blocked, nonce, save, live, timeline,
                   suggestion, history>>

OtherLeaves ==
    /\ Turn("leave") /\ other.here
    /\ other' = [other EXCEPT !.here = FALSE]
    /\ text' = IF session = "live" THEN text ELSE persisted
    /\ made' = made \cap text'
    /\ Note(IF text' # text THEN {"left"} ELSE {})
    /\ UNCHANGED <<persisted, stored, page, live, timeline, suggestion, edits>>

-------------------------------------------------------------------------------
(* The timeline                                                            *)

\* Bound: not while the restoring of the head waits for the module.
OpenDrawer ==
    /\ {"preview", "rewind"} \cap Environment # {}
    /\ turns < MaxTurn /\ ~drawer /\ ~preview.ending
    /\ drawer' = TRUE /\ listing' = [listing EXCEPT !.asked = selected]
    /\ UNCHANGED <<document, page, live, preview, rewind, suggestion, history>>

\* The timeline of the document as its history has it.
Listed ==
    /\ listing.asked
    /\ listing' = [asked |-> FALSE, head |-> Some(persisted)]
    /\ UNCHANGED <<document, page, live, preview, drawer, rewind, suggestion, history>>

\* It times out; what was listed before stays.
ListFails ==
    /\ Turn("failure") /\ listing.asked
    /\ listing' = [listing EXCEPT !.asked = FALSE]
    /\ UNCHANGED <<document, page, live, preview, drawer, rewind, suggestion, made, edits, upset>>

\* A snapshot of the list is chosen.  Bound: not while an answer is awaited that
\* was asked for before the file was left.
AskPreview ==
    /\ Turn("preview") /\ drawer /\ listing.head.on /\ session = "live"
    /\ preview.asked = "no" /\ rewind.pc = "none"
    /\ preview' = [preview EXCEPT !.asked = "sent",
                      !.model = IF editor.mounted THEN "same"
                                ELSE IF editor.known THEN "gone" ELSE "none"]
    /\ UNCHANGED <<document, page, live, drawer, listing, rewind, suggestion, made, edits, upset>>

\* The server reads the snapshot from the history, for a socket in the room.
PreviewRead ==
    /\ preview.asked = "sent" /\ session = "live"
    /\ preview' = [preview EXCEPT !.asked = "read"]
    /\ UNCHANGED <<document, page, live, drawer, listing, rewind, suggestion, history>>

Answered == [preview EXCEPT !.asked = "no", !.model = "none"]

\* Faulty: the editor stays bound.
BoundPreviewed ==
    /\ preview.asked = "read" /\ preview.model = "same"
    /\ Changed({}) /\ text' = Through(binding, {})
    /\ preview' = [Answered EXCEPT !.active = TRUE]
    /\ UNCHANGED <<persisted, stored, other, selected, cached, fetch, nonce, save, session,
                   binding, binds, module, drawer, listing, rewind, suggestion, history>>

\* The snapshot is there: the editor is unbound, and shows it.
Previewed ==
    /\ preview.asked = "read" /\ preview.model = "same"
    /\ binding' = Unbound
    /\ Changed({}) /\ text' = Through(Unbound, {})
    /\ preview' = [Answered EXCEPT !.active = TRUE]
    /\ UNCHANGED <<persisted, stored, other, selected, cached, fetch, nonce, save, session,
                   binds, module, drawer, listing, rewind, suggestion, history>>

\* It was asked for with a model that is gone: the editor of today is unbound,
\* and then the setting of the value fails.
PreviewAstray ==
    /\ preview.asked = "read" /\ selected /\ preview.model = "gone"
    /\ binding' = Unbound /\ preview' = Answered
    /\ Note(IF binding.held THEN {"astray"} ELSE {})
    /\ UNCHANGED <<document, page, session, editor, binds, module, drawer, listing, rewind,
                   suggestion, made, edits, turns>>

\* It times out; the server refuses it, not having the socket in the room; there
\* was no editor to show it in; or another file is the active one.
PreviewFails ==
    /\ \/ Turn("failure") /\ preview.asked # "no"
       \/ /\ \/ preview.asked = "sent" /\ session # "live"
             \/ preview.asked = "read" /\ (preview.model = "none" \/ ~selected)
          /\ UNCHANGED turns
    /\ preview' = Answered
    /\ UNCHANGED <<document, page, live, drawer, listing, rewind, suggestion, made, edits, upset>>

\* The model gets the text of the document and is bound to it; the preview p is
\* over as soon as it is.
Restored(p) ==
    /\ Bind /\ Changed(text)
    /\ preview' = [p EXCEPT !.active = ~module, !.ending = ~module]
    /\ Note(IF binds > 0 THEN {"twice"} ELSE {})

CanRestore == preview.active /\ CanBind

\* Closing the drawer cancels a request and restores the head, if there is an
\* editor and a document.
CloseDrawer ==
    /\ drawer /\ drawer' = FALSE
    /\ IF CanRestore THEN Restored(Answered)
       ELSE /\ preview' = IF preview.active THEN Answered ELSE preview
            /\ UNCHANGED <<binding, binds, editor, draft, blocked, upset>>
    /\ UNCHANGED <<document, selected, cached, fetch, nonce, save, session, module, listing,
                   rewind, suggestion, made, edits, turns>>

\* A preview that becomes active while the drawer is closed ends at once.
LatePreview ==
    /\ ~drawer /\ CanRestore /\ ~preview.ending
    /\ Restored(Answered)
    /\ UNCHANGED <<document, selected, cached, fetch, nonce, save, session, module, drawer,
                   listing, rewind, suggestion, made, edits, turns>>

\* It says which head the list has that the user saw.  The preview that it ends is
\* that of the model there is now.
AskRewind ==
    /\ Turn("rewind") /\ drawer /\ listing.head.on /\ session = "live" /\ rewind.pc = "none"
    /\ rewind' = [pc |-> "sent", head |-> listing.head.text,
                  previewed |-> preview.active /\ editor.mounted]
    /\ UNCHANGED <<document, page, live, preview, drawer, listing, suggestion, made, edits, upset>>

\* The server rewinds the document and its history, and tells the room, unless a
\* save has moved the head that the user saw.
Rewound ==
    /\ rewind.pc = "sent" /\ rewind.head = persisted
    /\ (session = "live" \/ other.here) /\ text # {}
    /\ Received({}) /\ persisted' = {} /\ made' = {}
    /\ rewind' = [rewind EXCEPT !.pc = "applied"]
    /\ Note(IF binding.alive = 0 THEN {"unseen"} ELSE {})
    /\ UNCHANGED <<stored, other, selected, cached, fetch, nonce, save, session, binding, binds,
                   module, preview, drawer, listing, suggestion, edits, turns>>

\* The document has changed, has nothing to undo, or is no longer open.
RewindRefused ==
    /\ rewind.pc = "sent"
    /\ rewind' = NoRewind
    /\ UNCHANGED <<document, page, live, preview, drawer, listing, suggestion, history>>

\* The page asks for the timeline again before it goes on.
RewindAnswered ==
    /\ rewind.pc = "applied"
    /\ rewind' = [rewind EXCEPT !.pc = "listing", !.head = {}]
    /\ listing' = [listing EXCEPT !.asked = selected]
    /\ UNCHANGED <<document, page, live, preview, drawer, suggestion, history>>

\* clearPreviewAfterRewind, as it was when the rewind was asked for: nothing, if
\* the editor of that time is gone.
RewindEnds ==
    /\ rewind.pc = "listing" /\ ~listing.asked
    /\ rewind' = NoRewind
    /\ IF rewind.previewed THEN Restored(preview)
       ELSE UNCHANGED <<preview, binding, binds, editor, draft, blocked, upset>>
    /\ UNCHANGED <<document, selected, cached, fetch, nonce, save, session, module, drawer,
                   listing, suggestion, made, edits, turns>>

-------------------------------------------------------------------------------
(* Versions of the stored file, and suggestions                            *)

\* The drawer has fetched the version, or has restored the file to it.
VersionFetched == UNCHANGED <<stored, fetch>>
FileRestored == stored' = {} /\ fetch' = TRUE

\* The version is loaded into the editor as a draft, and into the document if the
\* editor is bound.
LoadVersion ==
    /\ Turn("load") /\ selected
    /\ draft' = Some({}) /\ blocked' = TRUE /\ nonce' = TRUE
    /\ editor' = [editor EXCEPT !.value = {}]
    /\ text' = IF editor.mounted THEN Through(binding, {}) ELSE text
    /\ made' = IF editor.mounted /\ binding.alive > 0 THEN {} ELSE made
    /\ VersionFetched \/ FileRestored
    /\ UNCHANGED <<persisted, other, selected, cached, save, session, binding, binds, module,
                   timeline, suggestion, edits, upset>>

\* The suggestion adds an edit to what the page shows, and takes the place of
\* the editor.  Bound: not before the document is joined.
Suggest ==
    /\ Turn("suggest") /\ session = "live" /\ ~suggestion.on /\ edits < MaxEdit
    /\ edits' = NewEdit /\ suggestion' = Some(Shown \cup {NewEdit})
    /\ Dismounted /\ editor' = [Unmounted EXCEPT !.known = editor.known]
    /\ preview' = [preview EXCEPT !.model = Forsaken, !.ending = FALSE]
    /\ UNCHANGED <<document, page, session, module, drawer, listing, made, upset>>

\* applyEditorContent, when the editor has made place for the suggestion: what the
\* document has is deleted and t is inserted.
Applied(t) == text' = t /\ made' = t

Accept ==
    /\ suggestion.on /\ session = "live" /\ save["suggestion"].pc = "none"
    /\ Applied(suggestion.text)
    /\ draft' = suggestion /\ blocked' = TRUE
    /\ save' = [save EXCEPT !["suggestion"] = [pc |-> "sent", text |-> suggestion.text]]
    /\ Note((IF made \subseteq suggestion.text THEN {} ELSE {"outdated"})
            \cup (IF Saving \/ other.save.on THEN {"overlap"} ELSE {}))
    /\ UNCHANGED <<persisted, stored, other, selected, cached, fetch, nonce, live, timeline,
                   suggestion, edits, turns>>

Discard ==
    /\ suggestion.on /\ save["suggestion"].pc = "none"
    /\ suggestion' = None
    /\ UNCHANGED <<document, page, live, timeline, history>>

-------------------------------------------------------------------------------
Next ==
    \/ Select \/ Mount \/ Joined \/ ModuleLoads \/ Deselect
    \/ Type \/ OtherTypes \/ OtherSends \/ OtherStored \/ OtherLeaves
    \/ Autosave \/ SaveNow \/ Fetched
    \/ \E s \in DOMAIN save : Store(s) \/ SaveFails(s) \/ Saved(s)
    \/ OpenDrawer \/ CloseDrawer \/ Listed \/ ListFails
    \/ AskPreview \/ PreviewRead \/ Previewed \/ PreviewAstray \/ PreviewFails \/ LatePreview
    \/ AskRewind \/ Rewound \/ RewindRefused \/ RewindAnswered \/ RewindEnds
    \/ LoadVersion \/ Suggest \/ Accept \/ Discard

Spec == Init /\ [][Next]_vars

-------------------------------------------------------------------------------
\* An edit that the live document has had, and that nobody asked to undo, stays in
\* it: a preview, a late binding or a save of the page takes nobody's edit away.
\* The code does not hold this when the last client leaves a document with edits
\* no save has reached ("left"), when two bindings are made while y-monaco loads
\* ("twice"), when the content that is fetched after a version was loaded is
\* written into the model ("reverted"), and when an accepted suggestion was made
\* from an older text ("outdated").
NothingDropped == upset \cap {"left", "twice", "reverted", "outdated"} = {} => made \subseteq text

\* An editor with a document shows it and is bound to it exactly once, however
\* joins, mounts, previews and rewinds follow each other: not to the document of
\* an earlier binding as well, and not to none once a preview is over.  The
\* exceptions are two calls of bindEditorToLiveDoc that wait for y-monaco together,
\* and a preview that comes when the editor it was asked for in is gone.
EditorFollows ==
    editor.mounted /\ session = "live" /\ module /\ ~preview.active
            /\ upset \cap {"twice", "astray"} = {} =>
        editor.value = text /\ binding.alive = 1

Settled ==
    /\ editor.mounted /\ session = "live" /\ module
    /\ ~preview.active /\ rewind.pc = "none" /\ ~suggestion.on
    /\ ~fetch /\ ~other.save.on
    /\ \A s \in DOMAIN save : save[s] = NoSave

\* Once every request is answered, a page that shows its file as saved (no dirty
\* draft) has its document in the stored file, also if the user typed while the
\* save was in flight; but not if two saves overlapped, or any of the other races.
CleanIsStored == Settled /\ ~Dirty /\ upset = {} => stored = text

===============================================================================
