--------------------------- MODULE EditorPageProofs ---------------------------
(***************************************************************************)
(* Proofs about EditorPage: its variables keep their types, an editor with *)
(* a document is bound to it exactly once, the page takes nobody's edit    *)
(* away, and a page that shows its file as saved has stored its document,  *)
(* but for the races the module names.  The last section is about          *)
(* ProjectExplorer: the page's lists follow the project, and a tab closes  *)
(* for a reason.                                                           *)
(***************************************************************************)
EXTENDS EditorPage, ProjectExplorer, TLAPS

-------------------------------------------------------------------------------
(* The types, variable by variable                                         *)

OtherType == [here : BOOLEAN, save : Optional]
BindingType == [alive : Nat, held : BOOLEAN]
EditorType == [mounted : BOOLEAN, value : Text, known : BOOLEAN]
PreviewType == [active : BOOLEAN, ending : BOOLEAN, asked : {"no", "sent", "read"},
                model : {"none", "same", "gone"}]
ListingType == [asked : BOOLEAN, head : Optional]
RewindType ==
    [pc : {"none", "sent", "applied", "listing"}, head : Text, previewed : BOOLEAN]
SaveType == [pc : {"none", "sent", "stored"}, text : Text]

TextTypes ==
    /\ text \in Text /\ persisted \in Text /\ stored \in Text /\ cached \in Text
    /\ made \in Text /\ other \in OtherType
FlagTypes ==
    /\ selected \in BOOLEAN /\ fetch \in BOOLEAN /\ module \in BOOLEAN
    /\ blocked \in BOOLEAN /\ nonce \in BOOLEAN /\ drawer \in BOOLEAN
    /\ session \in {"none", "joining", "live"}
LiveTypes ==
    /\ editor \in EditorType /\ binding \in BindingType /\ binds \in Nat
    /\ binding.held => binding.alive > 0
DraftTypes ==
    /\ draft \in Optional /\ suggestion \in Optional
    /\ save \in [{"page", "suggestion"} -> SaveType]
TimelineTypes == preview \in PreviewType /\ listing \in ListingType /\ rewind \in RewindType
CountTypes == edits \in 0 .. MaxEdit /\ turns \in 0 .. MaxTurn /\ upset \subseteq Race

Types ==
    TextTypes /\ FlagTypes /\ LiveTypes /\ DraftTypes /\ TimelineTypes /\ CountTypes

\* It is the type invariant of the module.
LEMMA TypesOK == Types <=> TypeOK
<1> USE DEF TypeOK, Types, TextTypes, FlagTypes, LiveTypes, DraftTypes, TimelineTypes,
         CountTypes, OtherType, BindingType, EditorType, PreviewType, ListingType,
         RewindType, SaveType
<1> HIDE DEF Text, Optional
<1> QED
  OBVIOUS

\* Texts, and optional ones.
LEMMA Texts == {} \in Text
BY DEF Text

LEMMA SubText ==
    ASSUME NEW t \in Text, NEW u
    PROVE  t \cap u \in Text
BY DEF Text

LEMMA Optionals ==
    /\ None \in Optional /\ ~None.on /\ None.text = {}
    /\ \A t \in Text : Some(t) \in Optional /\ Some(t).on /\ Some(t).text = t
    /\ \A d \in Optional : d.on \in BOOLEAN /\ d.text \in Text
<1>1. ASSUME NEW d \in Optional
      PROVE  d.on \in BOOLEAN /\ d.text \in Text
  <2>1. CASE d = None
    BY <2>1, Texts DEF None
  <2>2. CASE \E t \in Text : d = Some(t)
    BY <2>2 DEF Some
  <2> QED
    BY <2>1, <2>2 DEF Optional
<1> QED
  BY <1>1, Texts DEF None, Some, Optional

-------------------------------------------------------------------------------
(* What the operators that the actions share do to the types               *)

\* An edit that is new is one within the bound.
LEMMA NewText ==
    ASSUME Types, edits < MaxEdit, NEW t \in Text
    PROVE  t \cup {NewEdit} \in Text /\ NewEdit \in 0 .. MaxEdit
BY EditorAssumption DEF EditorAssumption, Types, CountTypes, NewEdit, Text, Edit

\* After destroyBinding the hook holds no binding; binding makes one, or waits.
LEMMA UnboundTypes ==
    ASSUME Types
    PROVE  Unbound \in BindingType /\ ~Unbound.held
BY DEF Types, LiveTypes, Unbound, BindingType

LEMMA BindTypes ==
    ASSUME Types, Bind
    PROVE  /\ binding' \in BindingType /\ (binding'.held => binding'.alive > 0)
           /\ binds' \in Nat
<1>1. Unbound \in BindingType /\ ~Unbound.held /\ binds \in Nat
  BY UnboundTypes DEF Types, LiveTypes
<1>2. Unbound.alive \in Nat
  BY <1>1 DEF BindingType
<1>3. CASE module
  <2>1. binding' = [alive |-> Unbound.alive + 1, held |-> TRUE] /\ binds' = binds
    BY <1>3 DEF Bind
  <2> HIDE DEF Unbound
  <2> QED
    BY <1>1, <1>2, <2>1 DEF BindingType
<1>4. CASE ~module
  BY <1>1, <1>4 DEF Bind
<1> QED
  BY <1>3, <1>4

\* The page shows a text, and a model that changes has one.
LEMMA ShownTypes ==
    ASSUME Types
    PROVE  Shown \in Text
BY Optionals DEF Types, DraftTypes, TextTypes, Shown

LEMMA ChangedTypes ==
    ASSUME Types, NEW t \in Text, Changed(t)
    PROVE  /\ editor' \in EditorType /\ draft' \in Optional /\ blocked' \in BOOLEAN
           /\ editor' = [editor EXCEPT !.value = t]
BY Optionals DEF Types, LiveTypes, Changed, EditorType

LEMMA FollowTypes ==
    ASSUME Types, NEW t \in Text, Follow(t)
    PROVE  editor' \in EditorType /\ draft' \in Optional /\ blocked' \in BOOLEAN
BY ChangedTypes DEF Types, LiveTypes, DraftTypes, FlagTypes, Follow

\* So has the document, whatever reaches it and whatever it receives.
LEMMA ThroughTypes ==
    ASSUME Types, NEW t \in Text, NEW b
    PROVE  Through(b, t) \in Text
BY DEF Types, TextTypes, Through

LEMMA ReceivedTypes ==
    ASSUME Types, NEW t \in Text, Received(t)
    PROVE  /\ text' \in Text
           /\ editor' \in EditorType /\ draft' \in Optional /\ blocked' \in BOOLEAN
BY ChangedTypes DEF Types, LiveTypes, DraftTypes, FlagTypes, Received

\* Nothing is bound when the model is gone, and a preview can end.
LEMMA DismountedTypes ==
    ASSUME Types, Dismounted
    PROVE  /\ binding' \in BindingType /\ ~binding'.held /\ binds' \in Nat
           /\ rewind' \in RewindType
BY DEF Types, TimelineTypes, Dismounted, NoBinding, BindingType, RewindType

LEMMA PreviewTypes ==
    ASSUME Types
    PROVE  /\ Ended \in PreviewType /\ Answered \in PreviewType
           /\ Forsaken \in {"none", "same", "gone"}
BY DEF Types, TimelineTypes, PreviewType, Ended, Answered, Forsaken

\* Restoring the head binds the editor and sets its text.
LEMMA RestoredTypes ==
    ASSUME Types, NEW p \in PreviewType, Restored(p)
    PROVE  /\ binding' \in BindingType /\ (binding'.held => binding'.alive > 0)
           /\ binds' \in Nat
           /\ editor' \in EditorType /\ draft' \in Optional /\ blocked' \in BOOLEAN
           /\ preview' \in PreviewType /\ upset' \subseteq Race
<1>1. Bind /\ text \in Text /\ Changed(text)
  BY DEF Restored, Types, TextTypes
<1>2. preview' \in PreviewType
  BY DEF Restored, PreviewType, Types, FlagTypes
<1>3. upset' \subseteq Race
  BY DEF Restored, Types, CountTypes, Note, Race
<1> QED
  BY <1>1, <1>2, <1>3, BindTypes, ChangedTypes

\* What was stored or fetched may be written into the model.
LEMMA RefreshTypes ==
    ASSUME Types, NEW d \in Optional, NEW c \in Text, Refresh(d, c)
    PROVE  /\ draft' \in Optional /\ cached' \in Text /\ editor' \in EditorType
           /\ text' \in Text /\ upset' \subseteq Race
<1> DEFINE shown == IF d.on THEN d.text ELSE c
<1>1. shown \in Text /\ Through(binding, shown) \in Text
  BY Optionals, ThroughTypes
<1>2. draft' = d /\ cached' = c
  BY DEF Refresh
<1>3. editor' = [editor EXCEPT !.value = shown] \/ editor' = editor
  BY DEF Refresh
<1>4. text' = Through(binding, shown) \/ text' = text
  BY DEF Refresh
<1>5. upset' = upset \cup {"reverted"} \/ upset' = upset \cup {}
  BY DEF Refresh, Note
<1> HIDE DEF shown
<1> QED
  BY <1>1, <1>2, <1>3, <1>4, <1>5 DEF Types, LiveTypes, TextTypes, CountTypes, EditorType, Race

-------------------------------------------------------------------------------
(* Every step keeps the types.                                             *)

LEMMA NextTypes ==
    ASSUME Types, [Next]_vars
    PROVE  Types'
<1> USE EditorAssumption, Texts, Optionals
    DEF EditorAssumption, Types, TextTypes, FlagTypes, LiveTypes, DraftTypes,
        TimelineTypes, CountTypes, BindingType, EditorType, PreviewType,
        ListingType, RewindType, SaveType, Race, document, page, live, timeline,
        history, Note, Turn
<1>1. ASSUME Select PROVE Types'
  BY <1>1 DEF Select
<1>2. ASSUME Mount PROVE Types'
  <2>1. TextTypes' /\ FlagTypes'
    BY <1>2, BindTypes, ShownTypes DEF Mount, Some, Mounted
  <2>2. (LiveTypes /\ DraftTypes)'
    <3>1. Shown \in Text /\ text \in Text
      BY ShownTypes
    <3>2. Mounted(Shown) \in EditorType /\ Mounted(text) \in EditorType
      BY <3>1 DEF Mounted
    <3>3. editor' \in {Mounted(Shown), Mounted(text)}
          /\ draft' \in {draft, Some(text)} /\ blocked' \in {blocked, FALSE}
          /\ (Bind \/ UNCHANGED <<binding, binds>>) /\ UNCHANGED <<suggestion, save>>
      BY <1>2 DEF Mount
    <3>4. /\ binding' \in BindingType /\ (binding'.held => binding'.alive > 0)
          /\ binds' \in Nat
      BY <3>3, BindTypes
    <3> QED
      BY <3>1, <3>2, <3>3, <3>4 DEF Text
  <2>3. TimelineTypes' /\ CountTypes'
    BY <1>2, BindTypes, ShownTypes DEF Mount, Some, Mounted
  <2> QED
    BY <2>1, <2>2, <2>3
<1>3. ASSUME Joined PROVE Types'
  BY <1>3, BindTypes, FollowTypes DEF Joined
<1>4. ASSUME ModuleLoads PROVE Types'
  BY <1>4, ChangedTypes, PreviewTypes DEF ModuleLoads
<1>5. ASSUME Deselect PROVE Types'
  <2>1. TextTypes' /\ FlagTypes'
    BY <1>5, DismountedTypes, PreviewTypes, SubText DEF Deselect, NoListing,
       Unmounted, Saving
  <2>2. LiveTypes' /\ DraftTypes'
    BY <1>5, DismountedTypes, PreviewTypes, SubText DEF Deselect, NoListing,
       Unmounted, Saving
  <2>3. TimelineTypes'
    BY <1>5, DismountedTypes, PreviewTypes, SubText DEF Deselect, NoListing,
       Unmounted, Saving
  <2>4. CountTypes'
    BY <1>5, DismountedTypes, PreviewTypes, SubText DEF Deselect, NoListing,
       Unmounted, Saving
  <2> QED
    BY <2>1, <2>2, <2>3, <2>4
<1>6. ASSUME Type PROVE Types'
  BY <1>6, ChangedTypes, NewText, ThroughTypes DEF Type
<1>7. ASSUME OtherTypes PROVE Types'
  BY <1>7, NewText, ReceivedTypes DEF OtherTypes, OtherType
<1>8. ASSUME OtherSends PROVE Types'
  BY <1>8 DEF OtherSends, OtherType, Some, Saving
<1>9. ASSUME OtherStored PROVE Types'
  <2>1. TextTypes' /\ FlagTypes'
    BY <1>9 DEF OtherStored, OtherType
  <2>2. LiveTypes' /\ DraftTypes'
    BY <1>9 DEF OtherStored, OtherType
  <2>3. TimelineTypes'
    BY <1>9 DEF OtherStored, OtherType
  <2>4. CountTypes'
    BY <1>9 DEF OtherStored, OtherType
  <2> QED
    BY <2>1, <2>2, <2>3, <2>4
<1>10. ASSUME OtherLeaves PROVE Types'
  <2>1. TextTypes' /\ FlagTypes'
    BY <1>10, SubText DEF OtherLeaves, OtherType
  <2>2. LiveTypes' /\ DraftTypes'
    BY <1>10, SubText DEF OtherLeaves, OtherType
  <2>3. TimelineTypes'
    BY <1>10, SubText DEF OtherLeaves, OtherType
  <2>4. CountTypes'
    BY <1>10, SubText DEF OtherLeaves, OtherType
  <2> QED
    BY <2>1, <2>2, <2>3, <2>4
<1>11. ASSUME Autosave PROVE Types'
  BY <1>11, ShownTypes DEF Autosave, Dirty, Saving, Send, CanSave
<1>12. ASSUME SaveNow PROVE Types'
  BY <1>12, ShownTypes DEF SaveNow, Dirty, Saving, Send, CanSave
<1>13. ASSUME Fetched PROVE Types'
  <2>1. TextTypes' /\ FlagTypes'
    BY <1>13, RefreshTypes DEF Fetched
  <2>2. LiveTypes' /\ DraftTypes'
    BY <1>13, RefreshTypes DEF Fetched
  <2>3. TimelineTypes'
    BY <1>13, RefreshTypes DEF Fetched
  <2>4. CountTypes'
    BY <1>13, RefreshTypes DEF Fetched
  <2> QED
    BY <2>1, <2>2, <2>3, <2>4
<1>14. ASSUME NEW s \in DOMAIN save, Store(s) PROVE Types'
  BY <1>14 DEF Store
<1>15. ASSUME NEW s \in DOMAIN save, SaveFails(s) PROVE Types'
  BY <1>15 DEF SaveFails, NoSave
<1>16. ASSUME NEW s \in DOMAIN save, Saved(s) PROVE Types'
  BY <1>16, RefreshTypes DEF Saved, NoSave, DraftAfter
<1>17. ASSUME OpenDrawer PROVE Types'
  BY <1>17 DEF OpenDrawer
<1>18. ASSUME CloseDrawer PROVE Types'
  <2>1. CASE CanRestore
    <3>1. Restored(Answered)
      BY <1>18, <2>1 DEF CloseDrawer
    <3>2. UNCHANGED <<document, selected, cached, fetch, nonce, save, session,
                      module, listing, rewind, suggestion, made, edits, turns>>
          /\ drawer' = FALSE
      BY <1>18 DEF CloseDrawer
    <3>3. LiveTypes' /\ DraftTypes'
      BY <3>1, <3>2, PreviewTypes, RestoredTypes
    <3>4. TimelineTypes' /\ CountTypes'
      BY <3>1, <3>2, PreviewTypes, RestoredTypes
    <3>5. TextTypes' /\ FlagTypes'
      BY <3>1, <3>2, RestoredTypes, PreviewTypes
    <3> QED
      BY <3>3, <3>4, <3>5
  <2>2. CASE ~CanRestore
    <3>1. UNCHANGED <<binding, binds, editor, draft, blocked, upset>>
      BY <1>18, <2>2 DEF CloseDrawer
    <3>2. preview' \in PreviewType
      BY <1>18, <2>2, PreviewTypes DEF CloseDrawer
    <3>3. UNCHANGED <<document, selected, cached, fetch, nonce, save, session,
                      module, listing, rewind, suggestion, made, edits, turns>>
          /\ drawer' = FALSE
      BY <1>18 DEF CloseDrawer
    <3>4. LiveTypes' /\ DraftTypes'
      BY <3>1, <3>3
    <3>5. TimelineTypes' /\ CountTypes'
      BY <3>1, <3>2, <3>3
    <3>6. TextTypes' /\ FlagTypes'
      BY <3>1, <3>3
    <3> QED
      BY <3>4, <3>5, <3>6
  <2> QED
    BY <2>1, <2>2
<1>19. ASSUME Listed PROVE Types'
  BY <1>19 DEF Listed, Some
<1>20. ASSUME ListFails PROVE Types'
  <2>1. TextTypes' /\ FlagTypes'
    BY <1>20 DEF ListFails
  <2>2. LiveTypes' /\ DraftTypes'
    BY <1>20 DEF ListFails
  <2>3. TimelineTypes'
    BY <1>20 DEF ListFails
  <2>4. CountTypes'
    BY <1>20 DEF ListFails
  <2> QED
    BY <2>1, <2>2, <2>3, <2>4
<1>21. ASSUME AskPreview PROVE Types'
  <2>1. TextTypes' /\ FlagTypes'
    BY <1>21 DEF AskPreview
  <2>2. LiveTypes' /\ DraftTypes'
    BY <1>21 DEF AskPreview
  <2>3. TimelineTypes'
    BY <1>21 DEF AskPreview
  <2>4. CountTypes'
    BY <1>21 DEF AskPreview
  <2> QED
    BY <2>1, <2>2, <2>3, <2>4
<1>22. ASSUME PreviewRead PROVE Types'
  BY <1>22 DEF PreviewRead
<1>23. ASSUME Previewed PROVE Types'
  <2>1. TextTypes' /\ FlagTypes'
    BY <1>23, ChangedTypes, PreviewTypes, ThroughTypes, UnboundTypes DEF
       Previewed
  <2>2. LiveTypes' /\ DraftTypes'
    BY <1>23, ChangedTypes, PreviewTypes, ThroughTypes, UnboundTypes DEF
       Previewed
  <2>3. TimelineTypes'
    BY <1>23, ChangedTypes, PreviewTypes, ThroughTypes, UnboundTypes DEF
       Previewed
  <2>4. CountTypes'
    BY <1>23, ChangedTypes, PreviewTypes, ThroughTypes, UnboundTypes DEF
       Previewed
  <2> QED
    BY <2>1, <2>2, <2>3, <2>4
<1>24. ASSUME PreviewAstray PROVE Types'
  BY <1>24, PreviewTypes, UnboundTypes DEF PreviewAstray
<1>25. ASSUME PreviewFails PROVE Types'
  BY <1>25, PreviewTypes DEF PreviewFails
<1>26. ASSUME LatePreview PROVE Types'
  BY <1>26, PreviewTypes, RestoredTypes DEF LatePreview, CanBind, CanRestore
<1>27. ASSUME AskRewind PROVE Types'
  BY <1>27 DEF AskRewind
<1>28. ASSUME Rewound PROVE Types'
  BY <1>28, ReceivedTypes DEF Rewound
<1>29. ASSUME RewindRefused PROVE Types'
  BY <1>29 DEF RewindRefused, NoRewind
<1>30. ASSUME RewindAnswered PROVE Types'
  <2>1. TextTypes' /\ FlagTypes'
    BY <1>30 DEF RewindAnswered
  <2>2. LiveTypes' /\ DraftTypes'
    BY <1>30 DEF RewindAnswered
  <2>3. TimelineTypes'
    BY <1>30 DEF RewindAnswered
  <2>4. CountTypes'
    BY <1>30 DEF RewindAnswered
  <2> QED
    BY <2>1, <2>2, <2>3, <2>4
<1>31. ASSUME RewindEnds PROVE Types'
  <2>1. TextTypes' /\ FlagTypes'
    BY <1>31, RestoredTypes DEF RewindEnds, NoRewind
  <2>2. LiveTypes' /\ DraftTypes'
    BY <1>31, RestoredTypes DEF RewindEnds, NoRewind
  <2>3. TimelineTypes'
    BY <1>31, RestoredTypes DEF RewindEnds, NoRewind
  <2>4. CountTypes'
    BY <1>31, RestoredTypes DEF RewindEnds, NoRewind
  <2> QED
    BY <2>1, <2>2, <2>3, <2>4
<1>32. ASSUME LoadVersion PROVE Types'
  <2>1. TextTypes'
    <3>1. text' \in Text
      BY <1>32, ThroughTypes DEF LoadVersion
    <3>2. stored' = stored \/ stored' = {}
      BY <1>32 DEF LoadVersion, VersionFetched, FileRestored
    <3>3. made' = made \/ made' = {}
      BY <1>32 DEF LoadVersion
    <3>4. UNCHANGED <<persisted, cached, other>>
      BY <1>32 DEF LoadVersion
    <3> QED
      BY <3>1, <3>2, <3>3, <3>4 DEF Text
  <2>2. FlagTypes'
    BY <1>32, ThroughTypes DEF LoadVersion, Some, VersionFetched,
       FileRestored
  <2>3. LiveTypes' /\ DraftTypes'
    BY <1>32, ThroughTypes DEF LoadVersion, Some, VersionFetched,
       FileRestored
  <2>4. TimelineTypes' /\ CountTypes'
    BY <1>32, ThroughTypes DEF LoadVersion, Some, VersionFetched,
       FileRestored
  <2> QED
    BY <2>1, <2>2, <2>3, <2>4
<1>33. ASSUME Suggest PROVE Types'
  <2>1. TextTypes' /\ FlagTypes'
    BY <1>33, DismountedTypes, NewText, PreviewTypes, ShownTypes DEF
       Suggest, Some, Unmounted
  <2>2. LiveTypes' /\ DraftTypes'
    BY <1>33, DismountedTypes, NewText, PreviewTypes, ShownTypes DEF
       Suggest, Some, Unmounted
  <2>3. TimelineTypes'
    BY <1>33, DismountedTypes, NewText, PreviewTypes, ShownTypes DEF
       Suggest, Some, Unmounted
  <2>4. CountTypes'
    BY <1>33, DismountedTypes, NewText, PreviewTypes, ShownTypes DEF
       Suggest, Some, Unmounted
  <2> QED
    BY <2>1, <2>2, <2>3, <2>4
<1>34. ASSUME Accept PROVE Types'
  BY <1>34 DEF Accept, Saving, Applied
<1>35. ASSUME Discard PROVE Types'
  BY <1>35 DEF Discard
<1>36. ASSUME UNCHANGED vars PROVE Types'
  BY <1>36 DEF vars
<1> QED
  BY <1>1, <1>2, <1>3, <1>4, <1>5, <1>6, <1>7, <1>8, <1>9, <1>10, <1>11,
     <1>12, <1>13, <1>14, <1>15, <1>16, <1>17, <1>18, <1>19, <1>20, <1>21,
     <1>22, <1>23, <1>24, <1>25, <1>26, <1>27, <1>28, <1>29, <1>30, <1>31,
     <1>32, <1>33, <1>34, <1>35, <1>36 DEF Next

-------------------------------------------------------------------------------
(* The invariant                                                           *)

\* A binding that is alive is one of the mounted editor to the joined document,
\* and keeps them equal: nothing is written into the model but through it.
Bound == binding.alive > 0 => /\ editor.mounted /\ session = "live" /\ module
                              /\ editor.value = text

\* At most one binding waits for the module, so that at most one is made, and the
\* one that is alive is the one the hook holds and can destroy.
Once == "twice" \notin upset => /\ binds \in {0, 1}
                                /\ binding.alive = IF binding.held THEN 1 ELSE 0

\* Whatever is under way with the editor ends with it.
Waits ==
    /\ binds > 0 => ~module /\ editor.mounted /\ session = "live"
    /\ rewind.previewed => editor.mounted /\ session = "live" /\ rewind.pc # "none"
    /\ preview.active => session = "live"
    /\ preview.model = "same" => editor.mounted /\ session = "live"
    /\ suggestion.on => ~editor.mounted
    /\ editor.mounted => selected
    /\ session # "none" => selected

\* An editor with a document is bound to it, or will be when the module is there.
Follows ==
    "astray" \notin upset /\ CanBind /\ ~preview.active =>
        IF module THEN binding.held ELSE binds > 0

Inv == Types /\ Bound /\ Once /\ Waits /\ Follows /\ NothingDropped


LEMMA NextInv ==
    ASSUME Inv, [Next]_vars
    PROVE  Inv'
<1> DEFINE Rest == Bound /\ Once /\ Waits /\ Follows /\ NothingDropped
<1>0. Types'
  BY NextTypes DEF Inv
<1> USE Optionals
    DEF Inv, Types, FlagTypes, LiveTypes, TimelineTypes, BindingType, EditorType,
        PreviewType, RewindType, Bound, Once, Waits, Follows, CanBind,
        NothingDropped, document, page, live, timeline, history, Note, Turn
<1>1. ASSUME Select PROVE Rest'
  BY <1>1 DEF Select
<1>2. ASSUME Mount PROVE Rest'
  BY <1>2 DEF Mount, Some, Mounted, Shown, Unbound, Bind
<1>3. ASSUME Joined PROVE Rest'
  BY <1>3 DEF Joined, Some, Changed, Unbound, Bind, Follow
<1>4. ASSUME ModuleLoads PROVE Rest'
  BY <1>4 DEF ModuleLoads, Some, Changed, Ended
<1>5. ASSUME Deselect PROVE Rest'
  BY <1>5 DEF Deselect, None, NoBinding, NoListing, Unmounted, Ended,
     Dismounted, Forsaken, Saving
<1>6. ASSUME Type PROVE Rest'
  BY <1>6 DEF Type, Some, Changed, Through
<1>7. ASSUME OtherTypes PROVE Rest'
  BY <1>7 DEF OtherTypes, Some, Changed, Received
<1>8. ASSUME OtherSends PROVE Rest'
  BY <1>8 DEF OtherSends, Some, Saving
<1>9. ASSUME OtherStored PROVE Rest'
  BY <1>9 DEF OtherStored, None
<1>10. ASSUME OtherLeaves PROVE Rest'
  BY <1>10 DEF OtherLeaves
<1>11. ASSUME Autosave PROVE Rest'
  BY <1>11 DEF Autosave, Shown, Dirty, Saving, Send, CanSave
<1>12. ASSUME SaveNow PROVE Rest'
  BY <1>12 DEF SaveNow, Shown, Dirty, Saving, Send, CanSave
<1>13. ASSUME Fetched PROVE Rest'
  BY <1>13 DEF Fetched, Through, Refresh
<1>14. ASSUME NEW s \in DOMAIN save, Store(s) PROVE Rest'
  BY <1>14 DEF Store
<1>15. ASSUME NEW s \in DOMAIN save, SaveFails(s) PROVE Rest'
  BY <1>15 DEF SaveFails, NoSave
<1>16. ASSUME NEW s \in DOMAIN save, Saved(s) PROVE Rest'
  BY <1>16 DEF Saved, None, NoSave, Through, DraftAfter, Refresh
<1>17. ASSUME OpenDrawer PROVE Rest'
  BY <1>17 DEF OpenDrawer
<1>18. ASSUME CloseDrawer PROVE Rest'
  <2>1. CASE CanRestore
    BY <1>18, <2>1 DEF CloseDrawer, Some, Changed, Unbound, Bind, Answered,
       Restored, CanRestore
  <2>2. CASE ~CanRestore
    <3>1. UNCHANGED <<text, selected, session, editor, binding, binds, module,
                      suggestion, rewind, made, upset>>
      BY <1>18, <2>2 DEF CloseDrawer
    <3>2. preview' = Answered \/ preview' = preview
      BY <1>18, <2>2 DEF CloseDrawer
    <3>3. preview'.active = preview.active
          /\ (preview'.model = "same" => preview.model = "same")
      BY <3>2 DEF Answered
    <3> QED
      BY <3>1, <3>3
  <2> QED
    BY <2>1, <2>2
<1>19. ASSUME Listed PROVE Rest'
  BY <1>19 DEF Listed, Some
<1>20. ASSUME ListFails PROVE Rest'
  BY <1>20 DEF ListFails
<1>21. ASSUME AskPreview PROVE Rest'
  BY <1>21 DEF AskPreview
<1>22. ASSUME PreviewRead PROVE Rest'
  BY <1>22 DEF PreviewRead
<1>23. ASSUME Previewed PROVE Rest'
  BY <1>23 DEF Previewed, Some, Changed, Unbound, Through, Answered
<1>24. ASSUME PreviewAstray PROVE Rest'
  BY <1>24 DEF PreviewAstray, Unbound, Answered
<1>25. ASSUME PreviewFails PROVE Rest'
  BY <1>25 DEF PreviewFails, Answered
<1>26. ASSUME LatePreview PROVE Rest'
  BY <1>26 DEF LatePreview, Some, Changed, Unbound, Bind, Answered,
     Restored, CanRestore
<1>27. ASSUME AskRewind PROVE Rest'
  BY <1>27 DEF AskRewind
<1>28. ASSUME Rewound PROVE Rest'
  BY <1>28 DEF Rewound, Some, Changed, Received
<1>29. ASSUME RewindRefused PROVE Rest'
  BY <1>29 DEF RewindRefused, NoRewind
<1>30. ASSUME RewindAnswered PROVE Rest'
  BY <1>30 DEF RewindAnswered
<1>31. ASSUME RewindEnds PROVE Rest'
  BY <1>31 DEF RewindEnds, Some, NoRewind, Changed, Unbound, Bind, Restored
<1>32. ASSUME LoadVersion PROVE Rest'
  BY <1>32 DEF LoadVersion, Some, Through, VersionFetched, FileRestored
<1>33. ASSUME Suggest PROVE Rest'
  BY <1>33 DEF Suggest, Some, NoBinding, Unmounted, Shown, Dismounted,
     Forsaken
<1>34. ASSUME Accept PROVE Rest'
  BY <1>34 DEF Accept, Saving, Applied
<1>35. ASSUME Discard PROVE Rest'
  BY <1>35 DEF Discard, None
<1>36. ASSUME UNCHANGED vars PROVE Rest'
  BY <1>36 DEF vars
<1> QED
  BY <1>0, <1>1, <1>2, <1>3, <1>4, <1>5, <1>6, <1>7, <1>8, <1>9, <1>10,
     <1>11, <1>12, <1>13, <1>14, <1>15, <1>16, <1>17, <1>18, <1>19, <1>20,
     <1>21, <1>22, <1>23, <1>24, <1>25, <1>26, <1>27, <1>28, <1>29, <1>30,
     <1>31, <1>32, <1>33, <1>34, <1>35, <1>36 DEF Next

LEMMA InitInv == Init => Inv
<1> SUFFICES ASSUME Init PROVE Inv
  OBVIOUS
<1> USE EditorAssumption, Texts, Optionals DEF EditorAssumption, Init
<1>1. LiveTypes /\ FlagTypes
  BY DEF LiveTypes, FlagTypes, Unmounted, NoBinding, EditorType, BindingType
<1>2. TimelineTypes
  BY DEF TimelineTypes, NoPreview, NoListing, NoRewind, PreviewType, ListingType,
         RewindType
<1>3. TextTypes /\ DraftTypes /\ CountTypes
  BY DEF TextTypes, DraftTypes, CountTypes, NoSave, SaveType, OtherType
<1>4. Bound /\ Once /\ Waits /\ Follows /\ NothingDropped
  BY DEF Bound, Once, Waits, Follows, CanBind, NothingDropped, Unmounted, NoBinding,
         NoPreview, NoRewind
<1> QED
  BY <1>1, <1>2, <1>3, <1>4 DEF Inv, Types

LEMMA InvAlways == Spec => []Inv
BY InitInv, NextInv, PTL DEF Spec

-------------------------------------------------------------------------------
(* The theorems                                                            *)

\* The variables of the page keep their types, whatever the page, the server and
\* the collaborator do.
THEOREM EditorTypes == Spec => []TypeOK
<1>1. Inv => TypeOK
  BY TypesOK DEF Inv
<1> QED
  BY <1>1, InvAlways, PTL

\* Once y-monaco is loaded, an editor that has a document and shows no preview
\* shows that document and is bound to it exactly once, for any number of edits,
\* joins, mounts, previews, rewinds, versions and suggestions: useCollabDoc binds
\* the editor again whenever it, the document or the preview comes or goes
\* (bindEditorToLiveDoc, clearPreviewAndRestoreHead, clearPreviewAfterRewind).
THEOREM EditorBound == Spec => []EditorFollows
<1>1. Inv => EditorFollows
  <2> SUFFICES ASSUME Inv, editor.mounted, session = "live", module, ~preview.active,
                      upset \cap {"twice", "astray"} = {}
               PROVE  editor.value = text /\ binding.alive = 1
    BY DEF EditorFollows
  <2>1. binding.held
    BY DEF Inv, Follows, CanBind
  <2>2. binding.alive = 1
    BY <2>1 DEF Inv, Once
  <2> QED
    BY <2>2 DEF Inv, Bound
<1> QED
  BY <1>1, InvAlways, PTL

\* What anybody typed and nobody asked to undo stays in the live document: neither
\* a preview that is set in the model nor a save or its answer takes it away, but
\* for the races the property excepts.
THEOREM EditorKeeps == Spec => []NothingDropped
<1>1. Inv => NothingDropped
  BY DEF Inv
<1> QED
  BY <1>1, InvAlways, PTL

-------------------------------------------------------------------------------
(* What is saved: of the draft, the cache, the saves in flight and the     *)
(* stored file, as long as no race has happened.                           *)

\* Every edit there is has been made.
Past == 1 .. edits
Known ==
    /\ text \subseteq Past /\ persisted \subseteq Past /\ stored \subseteq Past
    /\ cached \subseteq Past /\ editor.value \subseteq Past
    /\ draft.text \subseteq Past /\ suggestion.text \subseteq Past
    /\ other.save.text \subseteq Past
    /\ \A s \in DOMAIN save : save[s].text \subseteq Past

\* The cache has what is stored, or is about to ask for it.
Cached == ~fetch => cached = stored

\* One save at a time; a draft stays until its save is over.
Alone ==
    /\ other.save.on => ~Saving
    /\ \A s, r \in DOMAIN save : save[s].pc # "none" /\ save[r].pc # "none" => s = r
    /\ Saving => draft.on
    /\ \A s \in DOMAIN save : ~nonce /\ save[s].pc = "stored" => stored = save[s].text

\* A draft is what the editor has.
Drafted == editor.mounted /\ draft.on => editor.value = draft.text

\* Without a draft, what the page has is the document only if that is stored; once a
\* version was loaded, the editor has what the cache has.
Undrafted ==
    ~draft.on =>
        IF nonce THEN editor.mounted => editor.value = cached
        ELSE /\ cached = text => stored = text
             /\ editor.mounted /\ editor.value = text => stored = text
             /\ other.save.on /\ stored = text => other.save.text = text

\* All of it, until a race happens.
CleanInv == upset = {} => Alone /\ Drafted /\ Undrafted

\* Nothing has an edit that was not made.
LEMMA NextKnown ==
    ASSUME Inv, Known, [Next]_vars
    PROVE  Known'
<1> USE Optionals
    DEF Inv, Known, Past, NewEdit,
        Types, TextTypes, FlagTypes, LiveTypes, DraftTypes, TimelineTypes, CountTypes,
        OtherType, BindingType, EditorType, PreviewType, RewindType, SaveType,
        document, page, live, timeline, history, Note, Turn
<1>1. ASSUME Select PROVE Known'
  BY <1>1 DEF Select
<1>2. ASSUME Mount PROVE Known'
  <2>1. Shown \subseteq Past
    BY DEF Shown
  <2>2. editor'.value = Shown \/ editor'.value = text
    BY <1>2 DEF Mount, Mounted
  <2>3. draft' = draft \/ draft' = Some(text)
    BY <1>2 DEF Mount
  <2>4. UNCHANGED <<document, cached, save, suggestion, edits>>
    BY <1>2 DEF Mount
  <2>5. editor'.value \subseteq Past
    BY <2>1, <2>2
  <2>6. draft'.text = draft.text \/ draft'.text = text
    BY <2>3 DEF Some
  <2> QED
    BY <2>4, <2>5, <2>6
<1>3. ASSUME Joined PROVE Known'
  BY <1>3 DEF Joined, Some, Changed, Unbound, Bind, Follow
<1>4. ASSUME ModuleLoads PROVE Known'
  BY <1>4 DEF ModuleLoads, Some, Changed, Ended
<1>5. ASSUME Deselect PROVE Known'
  BY <1>5 DEF Deselect, None, NoBinding, NoListing, Unmounted, Ended,
     Dismounted, Forsaken
<1>6. ASSUME Type PROVE Known'
  BY <1>6 DEF Type, Some, Changed, Through
<1>7. ASSUME OtherTypes PROVE Known'
  BY <1>7 DEF OtherTypes, Some, Changed, Received
<1>8. ASSUME OtherSends PROVE Known'
  BY <1>8 DEF OtherSends, Some
<1>9. ASSUME OtherStored PROVE Known'
  BY <1>9 DEF OtherStored, None
<1>10. ASSUME OtherLeaves PROVE Known'
  BY <1>10 DEF OtherLeaves
<1>11. ASSUME Autosave PROVE Known'
  BY <1>11 DEF Autosave, Shown, Dirty, Send, CanSave
<1>12. ASSUME SaveNow PROVE Known'
  BY <1>12 DEF SaveNow, Shown, Dirty, Send, CanSave
<1>13. ASSUME Fetched PROVE Known'
  BY <1>13 DEF Fetched, Through, Refresh
<1>14. ASSUME NEW s \in DOMAIN save, Store(s) PROVE Known'
  BY <1>14 DEF Store
<1>15. ASSUME NEW s \in DOMAIN save, SaveFails(s) PROVE Known'
  BY <1>15 DEF SaveFails, NoSave
<1>16. ASSUME NEW s \in DOMAIN save, Saved(s) PROVE Known'
  BY <1>16 DEF Saved, None, NoSave, Through, DraftAfter, Refresh
<1>17. ASSUME OpenDrawer PROVE Known'
  BY <1>17 DEF OpenDrawer
<1>18. ASSUME CloseDrawer PROVE Known'
  BY <1>18 DEF CloseDrawer, Some, Changed, Unbound, Bind, Answered,
     Restored, CanRestore
<1>19. ASSUME Listed PROVE Known'
  BY <1>19 DEF Listed, Some
<1>20. ASSUME ListFails PROVE Known'
  BY <1>20 DEF ListFails
<1>21. ASSUME AskPreview PROVE Known'
  BY <1>21 DEF AskPreview
<1>22. ASSUME PreviewRead PROVE Known'
  BY <1>22 DEF PreviewRead
<1>23. ASSUME Previewed PROVE Known'
  BY <1>23 DEF Previewed, Some, Changed, Unbound, Through, Answered
<1>24. ASSUME PreviewAstray PROVE Known'
  BY <1>24 DEF PreviewAstray, Unbound, Answered
<1>25. ASSUME PreviewFails PROVE Known'
  BY <1>25 DEF PreviewFails, Answered
<1>26. ASSUME LatePreview PROVE Known'
  BY <1>26 DEF LatePreview, Some, Changed, Unbound, Bind, Answered,
     Restored, CanRestore
<1>27. ASSUME AskRewind PROVE Known'
  BY <1>27 DEF AskRewind
<1>28. ASSUME Rewound PROVE Known'
  BY <1>28 DEF Rewound, Some, Changed, Received
<1>29. ASSUME RewindRefused PROVE Known'
  BY <1>29 DEF RewindRefused, NoRewind
<1>30. ASSUME RewindAnswered PROVE Known'
  BY <1>30 DEF RewindAnswered
<1>31. ASSUME RewindEnds PROVE Known'
  BY <1>31 DEF RewindEnds, Some, NoRewind, Changed, Unbound, Bind, Restored
<1>32. ASSUME LoadVersion PROVE Known'
  BY <1>32 DEF LoadVersion, Some, Through, VersionFetched, FileRestored
<1>33. ASSUME Suggest PROVE Known'
  BY <1>33 DEF Suggest, Some, NoBinding, Unmounted, Shown, Dismounted,
     Forsaken
<1>34. ASSUME Accept PROVE Known'
  BY <1>34 DEF Accept, Applied
<1>35. ASSUME Discard PROVE Known'
  BY <1>35 DEF Discard, None
<1>36. ASSUME UNCHANGED vars PROVE Known'
  BY <1>36 DEF vars
<1> QED
  BY <1>1, <1>2, <1>3, <1>4, <1>5, <1>6, <1>7, <1>8, <1>9, <1>10, <1>11,
     <1>12, <1>13, <1>14, <1>15, <1>16, <1>17, <1>18, <1>19, <1>20, <1>21,
     <1>22, <1>23, <1>24, <1>25, <1>26, <1>27, <1>28, <1>29, <1>30, <1>31,
     <1>32, <1>33, <1>34, <1>35, <1>36 DEF Next

\* Every step keeps what holds until a race happens.
LEMMA NextClean ==
    ASSUME Inv, Known, CleanInv, [Next]_vars
    PROVE  CleanInv'
<1> USE Optionals
    DEF Inv, Bound, Waits, Follows, CanBind, Known, Past, NewEdit, CleanInv,
        Alone, Drafted, Undrafted, Saving,
        Types, TextTypes, FlagTypes, LiveTypes, DraftTypes, TimelineTypes, CountTypes,
        OtherType, BindingType, EditorType, PreviewType, RewindType, SaveType,
        document, page, live, timeline, history, Note, Turn
<1>1. ASSUME Select PROVE CleanInv'
  BY <1>1 DEF Select
<1>2. ASSUME Mount PROVE CleanInv'
  BY <1>2 DEF Mount, Some, Mounted, Shown, Unbound, Bind
<1>3. ASSUME Joined PROVE CleanInv'
  BY <1>3 DEF Joined, Some, Changed, Unbound, Bind, Follow
<1>4. ASSUME ModuleLoads PROVE CleanInv'
  BY <1>4 DEF ModuleLoads, Some, Changed, Ended
<1>5. ASSUME Deselect PROVE CleanInv'
  BY <1>5 DEF Deselect, None, NoBinding, NoListing, Unmounted, Ended,
     Dismounted, Forsaken
<1>6. ASSUME Type PROVE CleanInv'
  BY <1>6 DEF Type, Some, Changed, Through
<1>7. ASSUME OtherTypes PROVE CleanInv'
  <2>1. /\ text' = text \cup {edits + 1} /\ edits + 1 \in text'
        /\ edits + 1 \notin Past
        /\ UNCHANGED <<stored, cached, other, save, nonce, upset>>
    BY <1>7 DEF OtherTypes, Received
  <2>2. CASE binding.alive > 0
    <3>1. draft' = Some(text') /\ editor' = [editor EXCEPT !.value = text']
      BY <1>7, <2>2 DEF OtherTypes, Received, Changed
    <3> QED
      BY <2>1, <3>1 DEF Some
  <2>3. CASE ~(binding.alive > 0)
    <3>1. UNCHANGED <<editor, draft>>
      BY <1>7, <2>3 DEF OtherTypes, Received
    <3>2. cached # text' /\ stored # text' /\ editor.value # text'
      BY <2>1
    <3> QED
      BY <2>1, <3>1, <3>2
  <2> QED
    BY <2>2, <2>3
<1>8. ASSUME OtherSends PROVE CleanInv'
  BY <1>8 DEF OtherSends, Some
<1>9. ASSUME OtherStored PROVE CleanInv'
  BY <1>9 DEF OtherStored, None
<1>10. ASSUME OtherLeaves PROVE CleanInv'
  BY <1>10 DEF OtherLeaves
<1>11. ASSUME Autosave PROVE CleanInv'
  <2>1. upset' = {} => Alone'
    BY <1>11 DEF Autosave, Some, Shown, Dirty, CanSave, Send
  <2>2. upset' = {} => Drafted'
    BY <1>11 DEF Autosave, Some, Shown, Dirty, CanSave, Send
  <2>3. upset' = {} => Undrafted'
    BY <1>11 DEF Autosave, Some, Shown, Dirty, CanSave, Send
  <2> QED
    BY <2>1, <2>2, <2>3
<1>12. ASSUME SaveNow PROVE CleanInv'
  BY <1>12 DEF SaveNow, Shown, Dirty, Send, CanSave
<1>13. ASSUME Fetched PROVE CleanInv'
  BY <1>13 DEF Fetched, Through, Refresh
<1>14. ASSUME NEW s \in DOMAIN save, Store(s) PROVE CleanInv'
  BY <1>14 DEF Store
<1>15. ASSUME NEW s \in DOMAIN save, SaveFails(s) PROVE CleanInv'
  BY <1>15 DEF SaveFails, NoSave
<1>16. ASSUME NEW s \in DOMAIN save, Saved(s) PROVE CleanInv'
  BY <1>16 DEF Saved, None, NoSave, Through, DraftAfter, Refresh
<1>17. ASSUME OpenDrawer PROVE CleanInv'
  BY <1>17 DEF OpenDrawer
<1>18. ASSUME CloseDrawer PROVE CleanInv'
  BY <1>18 DEF CloseDrawer, Some, Changed, Unbound, Bind, Answered,
     Restored, CanRestore
<1>19. ASSUME Listed PROVE CleanInv'
  BY <1>19 DEF Listed, Some
<1>20. ASSUME ListFails PROVE CleanInv'
  BY <1>20 DEF ListFails
<1>21. ASSUME AskPreview PROVE CleanInv'
  BY <1>21 DEF AskPreview
<1>22. ASSUME PreviewRead PROVE CleanInv'
  BY <1>22 DEF PreviewRead
<1>23. ASSUME Previewed PROVE CleanInv'
  BY <1>23 DEF Previewed, Some, Changed, Unbound, Through, Answered
<1>24. ASSUME PreviewAstray PROVE CleanInv'
  BY <1>24 DEF PreviewAstray, Unbound, Answered
<1>25. ASSUME PreviewFails PROVE CleanInv'
  BY <1>25 DEF PreviewFails, Answered
<1>26. ASSUME LatePreview PROVE CleanInv'
  BY <1>26 DEF LatePreview, Some, Changed, Unbound, Bind, Answered,
     Restored, CanRestore
<1>27. ASSUME AskRewind PROVE CleanInv'
  BY <1>27 DEF AskRewind
<1>28. ASSUME Rewound PROVE CleanInv'
  <2>1. UNCHANGED <<stored, cached, other, save, nonce>>
    BY <1>28 DEF Rewound
  <2>2. SUFFICES ASSUME upset' = {} PROVE Alone' /\ Drafted' /\ Undrafted'
    OBVIOUS
  <2>3. binding.alive # 0 /\ upset = {}
    BY <1>28, <2>2 DEF Rewound
  <2>4. draft' = Some({}) /\ editor' = [editor EXCEPT !.value = {}]
    BY <1>28, <2>3 DEF Rewound, Received, Changed
  <2> QED
    BY <2>1, <2>3, <2>4 DEF Some
<1>29. ASSUME RewindRefused PROVE CleanInv'
  BY <1>29 DEF RewindRefused, NoRewind
<1>30. ASSUME RewindAnswered PROVE CleanInv'
  BY <1>30 DEF RewindAnswered
<1>31. ASSUME RewindEnds PROVE CleanInv'
  BY <1>31 DEF RewindEnds, Some, NoRewind, Changed, Unbound, Bind, Restored
<1>32. ASSUME LoadVersion PROVE CleanInv'
  BY <1>32 DEF LoadVersion, Some, Through, VersionFetched, FileRestored
<1>33. ASSUME Suggest PROVE CleanInv'
  BY <1>33 DEF Suggest, Some, NoBinding, Unmounted, Shown, Dismounted,
     Forsaken
<1>34. ASSUME Accept PROVE CleanInv'
  <2>1. upset' = {} => Alone'
    BY <1>34 DEF Accept, Some, Applied
  <2>2. upset' = {} => Drafted'
    BY <1>34 DEF Accept, Some, Applied
  <2>3. upset' = {} => Undrafted'
    BY <1>34 DEF Accept, Some, Applied
  <2> QED
    BY <2>1, <2>2, <2>3
<1>35. ASSUME Discard PROVE CleanInv'
  BY <1>35 DEF Discard, None
<1>36. ASSUME UNCHANGED vars PROVE CleanInv'
  BY <1>36 DEF vars
<1> QED
  BY <1>1, <1>2, <1>3, <1>4, <1>5, <1>6, <1>7, <1>8, <1>9, <1>10, <1>11,
     <1>12, <1>13, <1>14, <1>15, <1>16, <1>17, <1>18, <1>19, <1>20, <1>21,
     <1>22, <1>23, <1>24, <1>25, <1>26, <1>27, <1>28, <1>29, <1>30, <1>31,
     <1>32, <1>33, <1>34, <1>35, <1>36 DEF Next
\* The cache is asked for whenever something is stored.
LEMMA NextCached ==
    ASSUME Cached, [Next]_vars
    PROVE  Cached'
<1> USE DEF Cached, document, page, live, timeline, history
<1>1. ASSUME Mount \/ Joined \/ Deselect \/ LatePreview \/ RewindEnds PROVE Cached'
  BY <1>1 DEF Mount, Joined, Deselect, LatePreview, RewindEnds
<1>2. ASSUME Select \/ ModuleLoads \/ Type \/ OtherTypes \/ OtherSends \/ OtherStored
             \/ OtherLeaves
      PROVE  Cached'
  BY <1>2 DEF Select, ModuleLoads, Type, OtherTypes, OtherSends, OtherStored, OtherLeaves
<1>3. ASSUME Autosave \/ SaveNow \/ Fetched PROVE Cached'
  BY <1>3 DEF Autosave, SaveNow, Send, Fetched, Refresh
<1>4. ASSUME NEW s \in DOMAIN save, Store(s) \/ SaveFails(s) \/ Saved(s) PROVE Cached'
  BY <1>4 DEF Store, SaveFails, Saved
<1>5. ASSUME OpenDrawer \/ CloseDrawer \/ Listed \/ ListFails PROVE Cached'
  BY <1>5 DEF OpenDrawer, CloseDrawer, Listed, ListFails
<1>6. ASSUME AskPreview \/ PreviewRead \/ Previewed \/ PreviewAstray \/ PreviewFails
      PROVE  Cached'
  BY <1>6 DEF AskPreview, PreviewRead, Previewed, PreviewAstray, PreviewFails
<1>7. ASSUME AskRewind \/ Rewound \/ RewindRefused \/ RewindAnswered PROVE Cached'
  BY <1>7 DEF AskRewind, Rewound, RewindRefused, RewindAnswered
<1>8. ASSUME LoadVersion \/ Suggest \/ Accept \/ Discard PROVE Cached'
  BY <1>8 DEF LoadVersion, VersionFetched, FileRestored, Suggest, Accept, Discard
<1>9. ASSUME UNCHANGED vars PROVE Cached'
  BY <1>9 DEF vars
<1> QED
  BY <1>1, <1>2, <1>3, <1>4, <1>5, <1>6, <1>7, <1>8, <1>9 DEF Next

LEMMA InitClean == Init => Known /\ Cached /\ CleanInv
<1> SUFFICES ASSUME Init PROVE Known /\ Cached /\ CleanInv
  OBVIOUS
<1> USE Optionals DEF Init
<1>1. Known /\ Cached
  BY DEF Known, Past, Cached, Unmounted, NoSave
<1>2. ~Saving /\ ~draft.on /\ ~other.save.on /\ nonce = FALSE
  BY DEF Saving, NoSave
<1>3. Alone /\ Drafted
  BY <1>2 DEF Alone, Drafted, NoSave
<1>4. Undrafted
  BY <1>2 DEF Undrafted
<1> QED
  BY <1>1, <1>3, <1>4 DEF CleanInv

\* When every request is answered and no race has happened, a page that shows its
\* file as saved has the live document in the stored file: what saveFileMutation
\* takes out of the drafts when a save is answered is what it has stored, also if
\* the user went on typing, left and came back, previewed, rewound, loaded a version
\* or accepted a suggestion meanwhile.
THEOREM EditorClean == Spec => []CleanIsStored
<1>1. Inv /\ Cached /\ CleanInv => CleanIsStored
  <2> SUFFICES ASSUME Inv, Cached, CleanInv, Settled, ~Dirty, upset = {}
               PROVE  stored = text
    BY DEF CleanIsStored
  <2>1. Inv => EditorFollows
    BY DEF Inv, Once, Bound, Follows, CanBind, EditorFollows
  <2>2. editor.mounted /\ selected /\ editor.value = text /\ cached = stored
    BY <2>1 DEF EditorFollows, Settled, Cached, Inv, Waits
  <2>3. CASE draft.on
    BY <2>2, <2>3 DEF Dirty, CleanInv, Drafted
  <2>4. CASE ~draft.on
    BY <2>2, <2>4 DEF CleanInv, Undrafted
  <2> QED
    BY <2>3, <2>4
<1>2. Inv /\ Known /\ Cached /\ CleanInv /\ [Next]_vars => (Known /\ Cached /\ CleanInv)'
  BY NextKnown, NextCached, NextClean
<1> QED
  BY <1>1, <1>2, InitClean, InvAlways, PTL DEF Spec

-------------------------------------------------------------------------------
(* The files and folders that the page lists, ProjectExplorer: it lists    *)
(* the project as it is once nothing is on its way, and closes no tab of a *)
(* file that exists, but for what it is not told.                          *)

Table == [File -> Path \cup {Absent}]
Event == [kind : {"created", "updated", "deleted"}, file : File,
          at : Path \cup {Absent}]
Dir == Folder \cup {Root}
Kind == {"create", "import", "rename", "delete", "createFolder", "renameFolder",
         "deleteFolder"}
Asking == [kind : Kind, state : {"sent", "done", "settling"}, file : 0 .. MaxFile,
           at : Path \cup {Absent}, dir : Dir, to : Dir]
Asked == {"none", "asked", "answered"}

ServerTypes ==
    /\ path \in Table /\ created \in File /\ folders \subseteq Folder
    /\ inbox \in Seq(Event) /\ behind \subseteq {"files", "folders"}
PageTypes ==
    /\ local \subseteq Folder /\ list \in Table \cup {Unknown}
    /\ known \in (SUBSET Folder) \cup {Unknown}
    /\ fileFetch \in [state : Asked, snap : Table]
    /\ folderFetch \in [state : Asked, snap : SUBSET Folder]
    /\ tabs \subseteq File /\ active \in File \cup {Absent}
    /\ closedAll \in BOOLEAN /\ joined \in BOOLEAN
RequestTypes ==
    /\ op \in {Idle} \cup Asking
    /\ changes \in 0 .. MaxChange /\ cuts \in 0 .. MaxCut
TreeTypes == ServerTypes /\ PageTypes /\ RequestTypes

\* What the page lists, if it has had an answer.
Onlist == OrElse(list, Nothing)

\* No file is known that was never made.
Made ==
    \A f \in File :
        f > created => path[f] = Absent /\ fileFetch.snap[f] = Absent /\ Onlist[f] = Absent

\* Events that wait are of files that were made; a file that is told to be
\* deleted is.
Events ==
    \A i \in 1 .. Len(inbox) :
        /\ inbox[i].file <= created
        /\ IF inbox[i].kind = "deleted"
           THEN inbox[i].at = Absent /\ path[inbox[i].file] = Absent
           ELSE inbox[i].at \in Path

\* A request has what its kind needs, and a file it has deleted stays deleted.
Asks ==
    op # Idle =>
        /\ op.kind \in {"create", "import", "rename"} => op.at \in Path
        /\ op.kind \in {"rename", "delete"} => list # Unknown
        /\ \/ op.kind \in {"rename", "delete"}
           \/ op.kind = "create" /\ op.state = "done"
           => op.file \in 1 .. created
        /\ op.kind = "delete" /\ op.state = "done" => path[op.file] = Absent
        /\ op.kind \in {"createFolder", "renameFolder", "deleteFolder"} => op.dir \in Folder
        /\ op.kind = "renameFolder" => op.to \in Folder

\* The page has tabs of what it lists.
Opened == tabs \subseteq Existing(Onlist)

\* Of every file there is an event to come, or a query yet to be read, or an
\* answer that is true, or the list is; no answer that is on its way lacks a
\* file that is listed and exists.
FilesFollow ==
    "files" \notin behind =>
        /\ \A f \in File :
              \/ \E i \in 1 .. Len(inbox) : inbox[i].file = f
              \/ fileFetch.state = "asked"
              \/ fileFetch.state = "answered" /\ fileFetch.snap[f] = path[f]
              \/ fileFetch.state = "none" /\ list # Unknown /\ list[f] = path[f]
        /\ fileFetch.state = "answered" =>
              \A f \in Existing(Onlist) : path[f] = Absent \/ fileFetch.snap[f] # Absent

\* The folders the server remembers are known, or will be.
FoldersFollow ==
    "folders" \notin behind =>
        \/ folderFetch.state = "asked"
        \/ folderFetch.state = "answered" /\ folders \subseteq folderFetch.snap
        \/ folderFetch.state = "none" /\ known # Unknown /\ folders \subseteq known

TreeInv ==
    TreeTypes /\ Made /\ Events /\ Asks /\ Opened /\ FilesFollow /\ FoldersFollow

-------------------------------------------------------------------------------
(* Changes of the project, on the server                                   *)

Changing ==
    \/ \E p \in Path : ImportFile(p) \/ CreateFile(p)
    \/ \E f \in 1 .. created, p \in Path : RenameFile(f, p)
    \/ \E f \in 1 .. created : DeleteFile(f) \/ RestoreFileEntry(f)
    \/ \E d \in Folder : CreateFolder(d) \/ DeleteFolder(d)
    \/ \E d \in Folder, e \in Folder : RenameFolder(d, e)

\* What they keep: the invariant but for the page's own variables; and no file
\* comes back.
Served == ServerTypes /\ Made /\ Events /\ Opened /\ FilesFollow /\ FoldersFollow
Grows ==
    created <= created' /\ \A f \in 1 .. created : path[f] = Absent => path'[f] = Absent

\* The bounds, and lists with nothing in them.
LEMMA TreeNumbers ==
    ASSUME TreeTypes
    PROVE  /\ MaxFile \in Nat \ {0} /\ File = 1 .. MaxFile
                /\ created \in 1 .. MaxFile
           /\ Nothing \in Table
                /\ (\A f \in File : Nothing[f] = Absent)
           /\ Onlist \in Table /\ 1 .. created \subseteq File
                /\ Unknown \notin Table
BY ExplorerAssumption DEF TreeTypes, ServerTypes, PageTypes,
   File, Nothing, Onlist, OrElse, Table, Asked

\* Events that wait are of files.
LEMMA Inboxes ==
    ASSUME TreeTypes
    PROVE  /\ Len(inbox) \in Nat
           /\ \A i \in 1 .. Len(inbox) : inbox[i] \in Event
                /\ inbox[i].file \in File
                                       /\ inbox[i].at \in Path
                                            \cup {Absent}
<1>1. inbox \in Seq(Event)
  BY DEF TreeTypes, ServerTypes
<1>2. Len(inbox) \in Nat /\ \A i \in 1 .. Len(inbox) : inbox[i] \in Event
  BY <1>1
<1> QED
  BY <1>2 DEF Event

\* A page in the room has one more event at the end of its inbox.
LEMMA ToldRoom ==
    ASSUME TreeTypes, Events, NEW k \in {"created", "updated", "deleted"},
           NEW f \in File, NEW p \in Path \cup {Absent},
           Tell(k, f, p), joined
    PROVE  /\ inbox' \in Seq(Event) /\ behind' = behind
                /\ Len(inbox') = Len(inbox) + 1
           /\ \A i \in 1 .. Len(inbox) : inbox'[i] = inbox[i]
           /\ inbox'[Len(inbox')] = [kind |-> k, file |-> f, at |-> p]
BY DEF Tell, TreeTypes, ServerTypes, Event

\* A change of one file that its room is told of.
LEMMA Telling ==
    ASSUME TreeInv,
           NEW k \in {"created", "updated", "deleted"}, NEW f \in File,
           NEW p \in Path \cup {Absent}, Tell(k, f, p),
           k = "deleted" <=> p = Absent, path[f] = Absent => f > created,
           path' \in Table, \A g \in File : path'[g] = IF g = f THEN p
           ELSE path[g],
           created' \in File, created' \in {created, f}, f <= created',
           created <= created',
           UNCHANGED <<folders, queries, view, joined>>
    PROVE  Served' /\ Grows
<1>0. TreeTypes
  BY DEF TreeInv
<1>1. UNCHANGED <<Onlist, list, fileFetch, tabs, joined, folderFetch, known,
                  folders>>
  BY DEF queries, view, Onlist
<1>2. Made' /\ Opened' /\ FoldersFollow' /\ Grows
  BY <1>0, <1>1, TreeNumbers DEF TreeInv, Made, Opened, FoldersFollow,
     Grows, Existing, Tell, TreeTypes, ServerTypes, NotAsked
<1>3. CASE joined
  <2>0. /\ inbox' \in Seq(Event) /\ behind' = behind
             /\ Len(inbox') = Len(inbox) + 1
        /\ \A i \in 1 .. Len(inbox) : inbox'[i] = inbox[i]
        /\ inbox'[Len(inbox')] = [kind |-> k, file |-> f, at |-> p]
        /\ Len(inbox) \in Nat /\ \A i \in 1 .. Len(inbox) : inbox[i] \in Event
    BY <1>0, <1>3, ToldRoom DEF TreeInv, TreeTypes, ServerTypes
  <2>1. ServerTypes'
    BY <1>0, <2>0, <1>1 DEF TreeTypes, ServerTypes
  <2>2. Events'
    <3> SUFFICES ASSUME NEW i \in 1 .. Len(inbox')
          PROVE /\ inbox'[i].file <= created'
                /\ IF inbox'[i].kind = "deleted" THEN inbox'[i].at = Absent
                     /\ path'[inbox'[i].file] = Absent
                                        ELSE inbox'[i].at \in Path
      BY DEF Events
    <3>1. CASE i = Len(inbox')
      BY <3>1, <2>0
    <3>2. CASE i # Len(inbox')
      <4>1. i \in 1 .. Len(inbox) /\ inbox'[i] = inbox[i]
              /\ inbox[i].file \in File
        BY <3>2, <2>0 DEF Event
      <4>2. inbox[i].file <= created /\ inbox[i].file <= created'
        BY <4>1, TreeNumbers, <1>0 DEF TreeInv, Events
      <4> QED
        BY <4>1, <4>2, TreeNumbers, <1>0 DEF TreeInv, Events
    <3> QED
      BY <3>1, <3>2
  <2>3. FilesFollow'
    <3>1. \A g \in File : g # f
            /\ (\E i \in 1 .. Len(inbox) : inbox[i].file = g)
                            => \E i \in 1 .. Len(inbox') : inbox'[i].file = g
      BY <2>0
    <3>2. \E i \in 1 .. Len(inbox') : inbox'[i].file = f
      BY <2>0
    <3>3. fileFetch.state = "answered" =>
            f \notin Existing(Onlist) \/ path[f] # Absent
      BY <1>0, TreeNumbers DEF TreeInv, Made, Existing
    <3> SUFFICES ASSUME "files" \notin behind
          PROVE /\ \A g \in File :
                      \/ \E i \in 1 .. Len(inbox') : inbox'[i].file = g
                      \/ fileFetch.state = "asked"
                      \/ fileFetch.state = "answered" /\ fileFetch.snap[g] = path'[g]
                      \/ fileFetch.state = "none" /\ list # Unknown
                           /\ list[g] = path'[g]
                /\ fileFetch.state = "answered" =>
                      \A g \in Existing(Onlist) : path'[g] = Absent
                        \/ fileFetch.snap[g] # Absent
      BY <1>1, <2>0 DEF FilesFollow, Existing
    <3>4. \A g \in File :
                      \/ \E i \in 1 .. Len(inbox') : inbox'[i].file = g
                      \/ fileFetch.state = "asked"
                      \/ fileFetch.state = "answered" /\ fileFetch.snap[g] = path'[g]
                      \/ fileFetch.state = "none" /\ list # Unknown
                           /\ list[g] = path'[g]
      BY <3>1, <3>2 DEF TreeInv, FilesFollow
    <3>5. fileFetch.state = "answered" =>
            \A g \in Existing(Onlist) : path'[g] = Absent
              \/ fileFetch.snap[g] # Absent
      BY <3>3 DEF TreeInv, FilesFollow, Existing
    <3> QED
      BY <3>4, <3>5
  <2> QED
    BY <1>2, <2>1, <2>2, <2>3 DEF Served
<1>4. CASE ~joined
  <2>0. inbox' = inbox /\ behind' = behind \cup ({"files"} \cap NotAsked)
    BY <1>4 DEF Tell
  <2>1. ServerTypes'
    BY <1>0, <1>1, <2>0 DEF TreeTypes, ServerTypes
  <2>2. Events'
    <3>0. \A i \in 1 .. Len(inbox) : inbox[i].file \in File
      BY <1>0, Inboxes
    <3> QED
      BY <1>0, <2>0, <3>0, TreeNumbers DEF TreeInv, Events
  <2>3. FilesFollow'
    BY <2>0, <1>1 DEF FilesFollow, NotAsked
  <2> QED
    BY <1>2, <2>1, <2>2, <2>3 DEF Served
<1> QED
  BY <1>3, <1>4

\* A change that nobody is told of leaves the page behind.
LEMMA TellingNobody ==
    ASSUME TreeInv, TellNobody, path' \in Table,
           \A g \in File : path[g] = Absent => path'[g] = Absent,
           folders' \subseteq Folder, UNCHANGED <<created, queries,
                                                  view, joined>>
    PROVE  Served' /\ Grows
<1>0. TreeTypes
  BY DEF TreeInv
<1>1. UNCHANGED <<Onlist, list, fileFetch, tabs, joined, folderFetch, known,
                  inbox, created>>
  BY DEF queries, view, Onlist, TellNobody
<1>2. behind' = behind \cup (NotAsked \cap
                    ((IF path' # path THEN {"files"} ELSE {})
                        \cup (IF folders' # folders THEN {"folders"} ELSE {})))
  BY DEF TellNobody
<1>3. \A i \in 1 .. Len(inbox) : inbox[i].file \in File
  BY <1>0, Inboxes
<1>4. ServerTypes'
  BY <1>0, <1>1, <1>2 DEF TreeTypes, ServerTypes
<1>5. Made' /\ Events' /\ Opened' /\ Grows
  BY <1>0, <1>1, <1>3, TreeNumbers DEF TreeInv, Made, Events, Opened, Grows,
     Existing
<1>6. FilesFollow'
  BY <1>0, <1>1, <1>2 DEF TreeInv, FilesFollow, NotAsked, TreeTypes,
     PageTypes, Asked
<1>7. FoldersFollow'
  BY <1>0, <1>1, <1>2 DEF TreeInv, FoldersFollow, NotAsked, TreeTypes,
     PageTypes, Asked
<1> QED
  BY <1>4, <1>5, <1>6, <1>7 DEF Served

\* Every request that changes the project keeps what the page relies on.
LEMMA Serving ==
    ASSUME TreeInv, Changing,
           UNCHANGED <<queries, view, joined>>
    PROVE  Served' /\ Grows
<1>0. TreeTypes
  BY DEF TreeInv
<1> USE TreeNumbers DEF TreeTypes, ServerTypes, Table
<1>1. ASSUME NEW p \in Path, CreateFile(p) PROVE Served' /\ Grows
  <2> DEFINE f == created + 1
  <2>1. /\ f \in File /\ f > created /\ path[f] = Absent
        /\ created' = f /\ path' = [path EXCEPT ![f] = p] /\ UNCHANGED folders
        /\ Tell("created", f, p) /\ p # Absent
    BY <1>0, <1>1, ExplorerAssumption DEF TreeInv, Made, CreateFile
  <2>2. path' \in Table /\ \A g \in File : path'[g] = IF g = f THEN p
          ELSE path[g]
    BY <1>0, <2>1
  <2>3. "created" # "deleted" /\ created \in Nat /\ f \in Nat /\ f <= created'
          /\ created <= created'
    BY <1>0, <2>1
  <2> HIDE DEF f
  <2> QED
    BY <2>1, <2>2, <2>3, Telling
<1>2. ASSUME NEW p \in Path, ImportFile(p) PROVE Served' /\ Grows
  <2>1. CASE CreateFile(p)
    BY <2>1, <1>1
  <2>2. CASE UNCHANGED <<server, inbox, behind>>
    BY <1>0, <2>2 DEF Served, TreeInv, Grows, server, queries,
       view, Made, Events, Opened, FilesFollow, FoldersFollow, Onlist,
       Existing
  <2> QED
    BY <1>2, <2>1, <2>2 DEF ImportFile
<1>3. ASSUME NEW f \in 1 .. created, NEW p \in Path, RenameFile(f, p)
      PROVE  Served' /\ Grows
  <2>1. /\ path[f] # Absent /\ path' = [path EXCEPT ![f] = p]
             /\ UNCHANGED <<created, folders>>
        /\ Tell("updated", f, p) /\ p # Absent /\ f \in File
    BY <1>0, <1>3, ExplorerAssumption DEF RenameFile
  <2>2. path' \in Table /\ \A g \in File : path'[g] = IF g = f THEN p
          ELSE path[g]
    BY <1>0, <2>1
  <2>3. created' \in File /\ f <= created' /\ created <= created'
    BY <1>0, <2>1
  <2> QED
    BY <2>1, <2>2, <2>3, Telling
<1>4. ASSUME NEW f \in 1 .. created, DeleteFile(f) PROVE Served' /\ Grows
  BY <1>0, <1>4, Telling DEF DeleteFile
<1>5. ASSUME NEW f \in 1 .. created, RestoreFileEntry(f)
      PROVE  Served' /\ Grows
  BY <1>0, <1>5, Telling DEF RestoreFileEntry, server
<1>6. ASSUME NEW d \in Folder, CreateFolder(d) PROVE Served' /\ Grows
  BY <1>0, <1>6, TellingNobody DEF CreateFolder
<1>7. ASSUME NEW d \in Folder, DeleteFolder(d) PROVE Served' /\ Grows
  <2>1. path' \in Table
          /\ (\A g \in File : path[g] = Absent => path'[g] = Absent)
    BY <1>0, <1>7 DEF DeleteFolder
  <2>2. folders' \subseteq Folder /\ UNCHANGED created /\ TellNobody
    BY <1>0, <1>7 DEF DeleteFolder
  <2> QED
    BY <2>1, <2>2, TellingNobody
<1>8. ASSUME NEW d \in Folder, NEW e \in Folder, RenameFolder(d, e)
      PROVE  Served' /\ Grows
  <2>1. path' = [f \in File |-> IF f \in Inside(path, d)
          THEN [path[f] EXCEPT !.in = e] ELSE path[f]]
        /\ folders' = Replaced(folders, d, e) /\ UNCHANGED created
             /\ TellNobody
    BY <1>8 DEF RenameFolder
  <2>2. ASSUME NEW g \in Inside(path, d)
        PROVE  [path[g] EXCEPT !.in = e] \in Path /\ path[g] # Absent
                 /\ g \in File
    <3>1. path[g] \in Path /\ g \in File /\ e \in Place
      BY <1>0, ExplorerAssumption DEF Inside, Existing
    <3> QED
      BY <3>1, ExplorerAssumption DEF Path
  <2>3. path' \in Table
    BY <1>0, <2>1, <2>2
  <2>4. \A g \in File : path[g] = Absent => path'[g] = Absent
    BY <1>0, <2>1, <2>2
  <2>5. folders' \subseteq Folder
    BY <1>0, <2>1 DEF Replaced
  <2> QED
    BY <2>1, <2>3, <2>4, <2>5, TellingNobody
<1> QED
  BY <1>1, <1>2, <1>3, <1>4, <1>5, <1>6, <1>7, <1>8 DEF Changing

-------------------------------------------------------------------------------
(* What the page renders, asks for and is told                             *)

\* What is rendered: the list, tabs of files that it has, all of the given ones.
LEMMA Rendering ==
    ASSUME TreeTypes, NEW L \in Table,
           NEW T \in SUBSET File, NEW A \in File \cup {Absent},
           NEW C \in BOOLEAN, Rendered(L, T, A, C), L = list =>
           T \subseteq Existing(L)
    PROVE  /\ list' = L /\ Onlist' = L /\ list' \in Table
           /\ tabs' \subseteq Existing(L) /\ tabs' \subseteq File
                /\ T \cap Existing(L) \subseteq tabs'
           /\ active' \in File \cup {Absent} /\ closedAll' \in BOOLEAN
<1>1. list' = L /\ closedAll' = C
  BY DEF Rendered
<1>2. Onlist' = L
  BY <1>1, TreeNumbers DEF Onlist, OrElse
<1>3. active' \in File \cup {Absent}
  BY DEF Rendered, Existing
<1>4. tabs' \subseteq Existing(L) /\ T \cap Existing(L) \subseteq tabs'
  BY DEF Rendered, Existing
<1> QED
  BY <1>1, <1>2, <1>3, <1>4 DEF Existing

\* An invalidated list is asked for anew, or its first answer is true, or the
\* page is behind.
LEMMA Invalidating ==
    ASSUME TreeTypes, NEW L, InvalidateFiles(L)
    PROVE  /\ fileFetch' \in [state : Asked, snap : Table]
           /\ behind' \subseteq {"files", "folders"}
                /\ ("folders" \in behind' <=> "folders" \in behind)
           /\ fileFetch' \in {fileFetch, Query("asked", Nothing)}
           /\ \/ fileFetch' = Query("asked", Nothing)
                   /\ fileFetch'.state = "asked"
              \/ fileFetch' = fileFetch /\ fileFetch.state = "answered"
                   /\ fileFetch.snap = path
              \/ "files" \in behind'
<1>1. fileFetch' \in {fileFetch, Query("asked", Nothing)}
        /\ behind' \in {behind \cup {"files"}, behind \ {"files"}}
      /\ \/ fileFetch' = Query("asked", Nothing) \/ "files" \in behind'
         \/ fileFetch' = fileFetch /\ fileFetch.state = "answered"
              /\ fileFetch.snap = path
  BY DEF InvalidateFiles, Anew, Knowing, TooLate
<1>2. Query("asked", Nothing).state = "asked" 
       /\ Query("asked",
            Nothing) \in [state : Asked,
              snap : Table]
  BY TreeNumbers DEF Query, Asked
<1> QED
  BY <1>1, <1>2 DEF TreeTypes, ServerTypes, PageTypes, Asked

\* So are the folders.
LEMMA InvalidatingFolders ==
    ASSUME TreeTypes, InvalidateFolders
    PROVE  /\ folderFetch' \in [state : Asked,
                snap : SUBSET Folder]
           /\ behind' \subseteq {"files", "folders"}
                /\ ("files" \in behind' <=> "files" \in behind)
           /\ \/ folderFetch'.state = "asked"
              \/ folderFetch' = folderFetch /\ folderFetch.state = "answered"
                   /\ folders \subseteq folderFetch.snap
              \/ "folders" \in behind'
<1>1. folderFetch' \in {folderFetch, Query("asked", {})}
        /\ behind' \in {behind \cup {"folders"}, behind \ {"folders"}}
      /\ \/ folderFetch' = Query("asked", {}) \/ "folders" \in behind'
         \/ folderFetch' = folderFetch /\ folderFetch.state = "answered"
              /\ folders \subseteq folderFetch.snap
  BY DEF InvalidateFolders, Anew, Knowing, TooLate
<1>2. Query("asked", {}).state = "asked" 
       /\ Query("asked", {}) \in [state : Asked,
            snap : SUBSET Folder]
  BY DEF Query, Asked
<1> QED
  BY <1>1, <1>2 DEF TreeTypes, ServerTypes, PageTypes, Asked

\* Queries carry their state and their answer.
LEMMA Queries ==
    ASSUME NEW s \in Asked
    PROVE  /\ \A S \in Table :
                Query(s, S) \in [state : Asked,
                  snap : Table]
           /\ \A S \in SUBSET Folder :
                Query(s, S) \in [state : Asked,
                  snap : SUBSET Folder]
           /\ \A S : Query(s, S).state = s /\ Query(s, S).snap = S
BY DEF Query, Asked

\* Folders of a tree are folders, and so are those the page shows.
LEMMA TreeFolders ==
    ASSUME NEW S \in Table
    PROVE  FoldersOf(S) \subseteq Folder
<1>1. ASSUME NEW f \in Existing(S) PROVE S[f].in \in Folder \cup {Root}
  BY <1>1, ExplorerAssumption DEF Existing, Table, Path
<1> QED
  BY <1>1 DEF FoldersOf

LEMMA ShownAreFolders ==
    ASSUME TreeTypes
    PROVE  ShownFolders \subseteq Folder
<1>1. Onlist \in Table
  BY TreeNumbers
<1> QED
  BY <1>1, TreeFolders DEF TreeTypes, PageTypes, ShownFolders,
     virtualFolders, OrElse, Onlist, Asked

\* The event at the head of the inbox, and those behind it.
LEMMA Heads ==
    ASSUME TreeTypes, inbox # <<>>
    PROVE  /\ Head(inbox) \in Event /\ Head(inbox) = inbox[1]
                /\ 1 \in 1 .. Len(inbox)
           /\ Tail(inbox) \in Seq(Event) /\ Len(Tail(inbox)) = Len(inbox) - 1
           /\ \A i \in 1 .. Len(Tail(inbox)) : Tail(inbox)[i] = inbox[i + 1]
                /\ i + 1 \in 1 .. Len(inbox)
           /\ \A i \in 2 .. Len(inbox) : i - 1 \in 1 .. Len(Tail(inbox))
                /\ inbox[i] = Tail(inbox)[i - 1]
BY DEF TreeTypes, ServerTypes

\* A list with one path set.
LEMMA Upserts ==
    ASSUME TreeTypes, NEW f \in File,
           NEW p \in Path \cup {Absent}
    PROVE  /\ Upserted(f, p) \in Table
           /\ \A g \in File : Upserted(f, p)[g] = IF g = f THEN p
                ELSE Onlist[g]
BY TreeNumbers DEF Upserted, Table, Onlist

\* Queries are read, and their answers arrive.
LEMMA ReadFilesInv ==
    ASSUME TreeInv, ReadFiles PROVE TreeInv'
<1>0. TreeTypes
  BY DEF TreeInv
<1>1. fileFetch' = Query("answered", path) /\ UNCHANGED <<path, created,
        folders, list, known, folderFetch, local, tabs, active, closedAll,
          joined, inbox, op, behind, changes, cuts, Onlist>>
  BY DEF ReadFiles, server, view, socket, bounds,
     Onlist
<1>2. fileFetch'.state = "answered" /\ fileFetch'.snap = path
  BY <1>1, Queries DEF Asked
<1>3. TreeTypes'
  BY <1>0, <1>1, Queries DEF TreeTypes, ServerTypes, PageTypes,
     RequestTypes, Asked
<1>4. Made' /\ Events' /\ Asks' /\ Opened' /\ FoldersFollow'
  BY <1>1, <1>2 DEF TreeInv, Made, Events, Asks, Opened, FoldersFollow
<1>5. FilesFollow'
  BY <1>1, <1>2 DEF TreeInv, FilesFollow
<1> QED
  BY <1>3, <1>4, <1>5 DEF TreeInv

LEMMA ReadFoldersInv ==
    ASSUME TreeInv, ReadFolders PROVE TreeInv'
<1>0. TreeTypes
  BY DEF TreeInv
<1>1. folderFetch' = Query("answered", folders \cup FoldersOf(path))
        /\ UNCHANGED <<path, created, folders, list, known, fileFetch, local, tabs,
                       active, closedAll, joined, inbox, op, behind, changes,
                         cuts, Onlist>>
  BY DEF ReadFolders, server, view, socket, bounds,
     Onlist
<1>2. folderFetch'.state = "answered"
        /\ folderFetch'.snap = folders \cup FoldersOf(path)
  BY <1>1, Queries DEF Asked
<1>3. TreeTypes'
  <2>1. folders \cup FoldersOf(path) \in SUBSET Folder
    BY <1>0, TreeFolders DEF TreeTypes, ServerTypes
  <2> QED
    BY <1>0, <1>1, <2>1, Queries DEF TreeTypes, ServerTypes, PageTypes,
       RequestTypes, Asked
<1>4. Made' /\ Events' /\ Asks' /\ Opened' /\ FoldersFollow'
  BY <1>1, <1>2 DEF TreeInv, Made, Events, Asks, Opened, FoldersFollow
<1>5. FilesFollow'
  BY <1>1, <1>2 DEF TreeInv, FilesFollow
<1> QED
  BY <1>3, <1>4, <1>5 DEF TreeInv

LEMMA FilesArriveInv ==
    ASSUME TreeInv, FilesArrive
    PROVE  /\ TreeInv'
           /\ \A f \in tabs \ tabs' : path[f] = Absent \/ "files" \in behind
<1>0. TreeTypes
  BY DEF TreeInv
<1>1. fileFetch' = Query("none", Nothing) /\ UNCHANGED <<path, created,
        folders, known, folderFetch, local, joined, inbox, op, behind,
          changes, cuts>>
  BY DEF FilesArrive, server, socket, bounds
<1>2. fileFetch'.state = "none" /\ fileFetch'.snap = Nothing
  BY <1>1, Queries DEF Asked
<1>3. fileFetch.state = "answered" /\ fileFetch.snap \in Table
  BY <1>0 DEF FilesArrive, TreeTypes, PageTypes, Asked
<1>4. list = fileFetch.snap => tabs \subseteq Existing(fileFetch.snap)
  BY <1>0, <1>3, TreeNumbers DEF TreeInv, Opened, Onlist, OrElse
<1>5. /\ list' = fileFetch.snap /\ Onlist' = list'
           /\ tabs' \subseteq Existing(list') /\ tabs' \subseteq File
      /\ active' \in File \cup {Absent} /\ closedAll' \in BOOLEAN
      /\ tabs \cap Existing(list') \subseteq tabs'
  <2>1. /\ Rendered(fileFetch.snap, tabs, active, closedAll)
             /\ fileFetch.snap \in Table
        /\ tabs \in SUBSET File /\ active \in File \cup {Absent}
             /\ closedAll \in BOOLEAN
        /\ (fileFetch.snap = list => tabs \subseteq Existing(fileFetch.snap))
    BY <1>0, <1>3, <1>4 DEF FilesArrive, TreeTypes, PageTypes, Asked
  <2> QED
    BY <1>0, <2>1, Rendering
<1>6. TreeTypes'
  BY <1>0, <1>1, <1>3, <1>5, Queries, TreeNumbers DEF TreeTypes,
     ServerTypes, PageTypes, RequestTypes, Asked
<1>7. Made' /\ Events' /\ Asks' /\ Opened' /\ FoldersFollow'
  BY <1>0, <1>1, <1>2, <1>3, <1>5, TreeNumbers DEF TreeInv, Made, Events,
     Asks, Opened, FoldersFollow
<1>8. FilesFollow'
  BY <1>0, <1>1, <1>2, <1>3, <1>5, TreeNumbers DEF TreeInv, FilesFollow
<1>9. \A f \in tabs \ tabs' : path[f] = Absent \/ "files" \in behind
  BY <1>0, <1>3, <1>5 DEF TreeInv, FilesFollow, Opened, Existing
<1> QED
  BY <1>6, <1>7, <1>8, <1>9 DEF TreeInv

LEMMA FoldersArriveInv ==
    ASSUME TreeInv, FoldersArrive PROVE TreeInv'
<1>0. TreeTypes
  BY DEF TreeInv
<1>1. known' = folderFetch.snap /\ folderFetch' = Query("none", {})
        /\ UNCHANGED <<path, created, folders, list, fileFetch, local, tabs,
                       active, closedAll, joined, inbox, op, behind, changes,
                         cuts, Onlist>>
  BY DEF FoldersArrive, server, view, socket,
     bounds, Onlist
<1>2. folderFetch'.state = "none" /\ folderFetch.snap \subseteq Folder
        /\ known' # Unknown /\ folderFetch.state = "answered"
  BY <1>0, <1>1, Queries, ExplorerAssumption DEF TreeTypes, PageTypes, FoldersArrive, Asked
<1>3. TreeTypes'
  BY <1>0, <1>1, <1>2, Queries DEF TreeTypes, ServerTypes, PageTypes,
     RequestTypes, Asked
<1>4. Made' /\ Events' /\ Asks' /\ Opened' /\ FoldersFollow' /\ FilesFollow'
  BY <1>1, <1>2 DEF TreeInv, Made, Events, Asks, Opened, FoldersFollow,
     FilesFollow
<1> QED
  BY <1>3, <1>4 DEF TreeInv

LEMMA FocusInv ==
    ASSUME TreeInv, Focus PROVE TreeInv'
<1>0. TreeTypes
  BY DEF TreeInv
<1>1. UNCHANGED <<path, created, folders, list, known, local, tabs, active,
                  closedAll, joined, inbox, op, changes, Onlist>>
                    /\ cuts < MaxCut /\ cuts' = cuts + 1
  BY DEF Focus, server, view, socket, Onlist
<1>2. /\ IF fileFetch.state = "none"
           THEN fileFetch' = Query("asked", Nothing)
           ELSE fileFetch' = fileFetch
      /\ IF folderFetch.state = "none"
           THEN folderFetch' = Query("asked", {})
           ELSE folderFetch' = folderFetch
      /\ behind' \subseteq behind
           /\ (fileFetch.state # "none" =>
                ("files" \in behind' <=> "files" \in behind))
      /\ (folderFetch.state # "none" =>
           ("folders" \in behind' <=> "folders" \in behind))
  BY DEF Focus
<1>3. TreeTypes'
  <2>1. cuts' \in 0 .. MaxCut
    BY <1>0, <1>1, ExplorerAssumption DEF TreeTypes, RequestTypes
  <2>2. fileFetch' \in [state : Asked, snap : Table]
        /\ folderFetch' \in [state : Asked,
             snap : SUBSET Folder]
    BY <1>0, <1>2, Queries, TreeNumbers DEF TreeTypes, PageTypes, Asked
  <2> QED
    BY <1>0, <1>1, <1>2, <2>1, <2>2 DEF TreeTypes, ServerTypes, PageTypes,
       RequestTypes, Asked
<1>4. Made' /\ Events' /\ Asks' /\ Opened'
  BY <1>0, <1>1, <1>2, Queries, TreeNumbers DEF TreeInv, Made, Events, Asks,
     Opened, Asked
<1>5. FilesFollow' /\ FoldersFollow'
  BY <1>1, <1>2, Queries DEF TreeInv, FilesFollow, FoldersFollow, Asked
<1> QED
  BY <1>3, <1>4, <1>5 DEF TreeInv

\* Taking an event leaves the others; it was the last of its file or not.
LEMMA HeadGone ==
    ASSUME TreeInv, NEW k, Take(k), UNCHANGED <<path, created>>
    PROVE  /\ Events' /\ inbox' \in Seq(Event)
           /\ Head(inbox) \in Event /\ Head(inbox).kind = k
           /\ Head(inbox).file \in File
                /\ Head(inbox).at \in Path \cup {Absent}
           /\ Head(inbox).file <= created
           /\ k = "deleted" => Head(inbox).at = Absent
                /\ path[Head(inbox).file] = Absent
           /\ k # "deleted" => Head(inbox).at \in Path
           /\ \A f \in File :
                (\E i \in 1 .. Len(inbox) : inbox[i].file = f) =>
                \/ f = Head(inbox).file
                     /\ \A i \in 2 .. Len(inbox) : inbox[i].file # f
                \/ \E i \in 1 .. Len(inbox') : inbox'[i].file = f
<1>0. TreeTypes
  BY DEF TreeInv
<1>1. inbox # <<>> /\ inbox' = Tail(inbox) /\ Head(inbox).kind = k
  BY DEF Take
<1>2. /\ Head(inbox) \in Event /\ Head(inbox) = inbox[1]
           /\ 1 \in 1 .. Len(inbox)
      /\ inbox' \in Seq(Event) /\ Len(inbox') = Len(inbox) - 1
      /\ \A i \in 1 .. Len(inbox') : inbox'[i] = inbox[i + 1]
           /\ i + 1 \in 1 .. Len(inbox)
      /\ \A i \in 2 .. Len(inbox) : i - 1 \in 1 .. Len(inbox')
           /\ inbox[i] = inbox'[i - 1]
  BY <1>0, <1>1, Heads
<1>3. Events'
  BY <1>2 DEF TreeInv, Events
<1>4. \A f \in File : (\E i \in 1 .. Len(inbox) : inbox[i].file = f) =>
                \/ f = Head(inbox).file
                     /\ \A i \in 2 .. Len(inbox) : inbox[i].file # f
                \/ \E i \in 1 .. Len(inbox') : inbox'[i].file = f
  <2> SUFFICES ASSUME NEW f \in File, NEW i \in 1 .. Len(inbox),
                      inbox[i].file = f
        PROVE \/ f = Head(inbox).file
                   /\ \A j \in 2 .. Len(inbox) : inbox[j].file # f
              \/ \E j \in 1 .. Len(inbox') : inbox'[j].file = f
    OBVIOUS
  <2>1. CASE \A j \in 2 .. Len(inbox) : inbox[j].file # f
    <3>1. i = 1
      BY <1>0, <2>1, Inboxes
    <3> QED
      BY <2>1, <3>1, <1>2
  <2>2. CASE ~ \A j \in 2 .. Len(inbox) : inbox[j].file # f
    <3>1. PICK j \in 2 .. Len(inbox) : inbox[j].file = f
      BY <2>2
    <3>2. j - 1 \in 1 .. Len(inbox') /\ inbox'[j - 1].file = f
      BY <3>1, <1>2
    <3> QED
      BY <3>2
  <2> QED
    BY <2>1, <2>2
<1>5. Head(inbox).file <= created
        /\ (k = "deleted" => Head(inbox).at = Absent
             /\ path[Head(inbox).file] = Absent)
      /\ (k # "deleted" => Head(inbox).at \in Path)
  BY <1>1, <1>2 DEF TreeInv, Events
<1> QED
  BY <1>1, <1>2, <1>3, <1>4, <1>5 DEF Event

\* An event that sets what is listed, to the path that it carries.
LEMMA Setting ==
    ASSUME TreeInv, NEW k \in {"created", "deleted"},
           Take(k), NEW e, e = Head(inbox),
           NEW T \in SUBSET File, NEW A \in File \cup {Absent},
           Rendered(Upserted(e.file, e.at), T, A, closedAll),
           T = IF k = "deleted" THEN tabs \ {e.file} ELSE tabs,
           Told(e),
           UNCHANGED <<server, fileFetch, known, folderFetch, local, joined,
                       op, bounds>>
    PROVE  /\ TreeInv'
           /\ \A f \in tabs \ tabs' : path[f] = Absent
<1>0. TreeTypes
  BY DEF TreeInv
<1> DEFINE L == Upserted(e.file, e.at)
<1>1. UNCHANGED <<path, created, folders, fileFetch, known, folderFetch, local,
                  joined, op, changes, cuts>>
  BY DEF server, bounds
<1>2. /\ Events' /\ inbox' \in Seq(Event)
      /\ e \in Event /\ e.kind = k /\ e.file \in File
           /\ e.at \in Path \cup {Absent} /\ e.file <= created
      /\ k = "deleted" => e.at = Absent /\ path[e.file] = Absent
      /\ k # "deleted" => e.at \in Path
      /\ \A f \in File : (\E i \in 1 .. Len(inbox) : inbox[i].file = f) =>
                \/ f = e.file /\ \A i \in 2 .. Len(inbox) : inbox[i].file # f
                \/ \E i \in 1 .. Len(inbox') : inbox'[i].file = f
  BY <1>1, HeadGone
<1>3. L \in Table /\ \A g \in File : L[g] = IF g = e.file THEN e.at
        ELSE Onlist[g]
  BY <1>0, <1>2, Upserts
<1> HIDE DEF L
<1>4. T \subseteq Existing(L)
  BY <1>2, <1>3, ExplorerAssumption DEF TreeInv, Opened, Existing
<1>5. /\ list' = L /\ Onlist' = L /\ list' \in Table
      /\ tabs' \subseteq Existing(L) /\ tabs' \subseteq File
           /\ T \cap Existing(L) \subseteq tabs'
      /\ active' \in File \cup {Absent} /\ closedAll' \in BOOLEAN
  <2>1. Rendered(L, T, A, closedAll) /\ closedAll \in BOOLEAN
    BY <1>0 DEF L, TreeTypes, PageTypes, Asked
  <2> QED
    BY <1>0, <1>3, <1>4, <2>1, Rendering
<1>6. /\ behind' \subseteq {"files", "folders"}
           /\ ("folders" \in behind' <=> "folders" \in behind)
      /\ "files" \notin behind' => "files" \notin behind
           /\ ~Overtaken(e.file, e.at) /\ ~Outdated(e)
  BY <1>0 DEF Told, TreeTypes, ServerTypes
<1>7. TreeTypes'
  BY <1>0, <1>1, <1>2, <1>5, <1>6 DEF TreeTypes, ServerTypes, PageTypes,
     RequestTypes, Asked
<1>8. Made' /\ Asks' /\ Opened' /\ FoldersFollow'
  <2>1. list' # Unknown
    BY <1>5, TreeNumbers, <1>0
  <2>2. Made'
    BY <1>0, <1>1, <1>2, <1>3, <1>5, TreeNumbers DEF TreeInv, Made
  <2>3. Asks'
    BY <1>1, <2>1 DEF TreeInv, Asks
  <2> QED
    BY <1>1, <1>5, <1>6, <2>2, <2>3 DEF TreeInv, Opened, FoldersFollow
<1>9. FilesFollow'
  <2> SUFFICES ASSUME "files" \notin behind'
        PROVE /\ \A f \in File :
                 \/ \E i \in 1 .. Len(inbox') : inbox'[i].file = f
                 \/ fileFetch.state = "asked"
                 \/ fileFetch.state = "answered" /\ fileFetch.snap[f] = path[f]
                 \/ fileFetch.state = "none" /\ list' # Unknown
                      /\ list'[f] = path[f]
              /\ fileFetch.state = "answered" =>
                   \A f \in Existing(L) : path[f] = Absent
                     \/ fileFetch.snap[f] # Absent
    BY <1>1, <1>5 DEF FilesFollow
  <2>1. /\ "files" \notin behind
        /\ fileFetch.state = "answered" => fileFetch.snap[e.file] = e.at
        /\ (\A i \in 2 .. Len(inbox) : inbox[i].file # e.file) =>
             path[e.file] = e.at
    BY <1>6 DEF Overtaken, Outdated
  <2>2. list' # Unknown
    BY <1>5, TreeNumbers, <1>0
  <2>3. list # Unknown => Onlist = list
    BY DEF Onlist, OrElse
  <2>4. \A f \in File :
                 \/ \E i \in 1 .. Len(inbox') : inbox'[i].file = f
                 \/ fileFetch.state = "asked"
                 \/ fileFetch.state = "answered" /\ fileFetch.snap[f] = path[f]
                 \/ fileFetch.state = "none" /\ list' # Unknown
                      /\ list'[f] = path[f]
    <3> SUFFICES ASSUME NEW f \in File,
                        ~ \E i \in 1 .. Len(inbox') : inbox'[i].file = f,
                        fileFetch.state # "asked"
          PROVE \/ fileFetch.state = "answered" /\ fileFetch.snap[f] = path[f]
                \/ fileFetch.state = "none" /\ list'[f] = path[f]
      BY <2>2
    <3>0. fileFetch.state \in {"none", "answered"}
      BY <1>0 DEF TreeTypes, PageTypes, Asked
    <3>1. CASE \E i \in 1 .. Len(inbox) : inbox[i].file = f
      BY <3>0, <3>1, <1>2, <2>1, <1>3, <1>5
    <3>2. CASE ~ \E i \in 1 .. Len(inbox) : inbox[i].file = f
      <4>1. f # e.file
        BY <1>0, <3>2, Heads DEF Take
      <4> QED
        BY <3>2, <4>1, <1>3, <1>5, <2>1, <2>3 DEF TreeInv, FilesFollow
    <3> QED
      BY <3>1, <3>2
  <2>5. fileFetch.state = "answered" =>
                   \A f \in Existing(L) : path[f] = Absent
                     \/ fileFetch.snap[f] # Absent
    BY <1>3, <2>1 DEF Existing, TreeInv, FilesFollow
  <2> QED
    BY <2>4, <2>5
<1>10. \A f \in tabs \ tabs' : path[f] = Absent
  BY <1>2, <1>4, <1>5
<1> QED
  BY <1>2, <1>7, <1>8, <1>9, <1>10 DEF TreeInv

LEMMA FileCreatedInv ==
    ASSUME TreeInv, FileCreated
    PROVE  TreeInv' /\ \A f \in tabs \ tabs' : path[f] = Absent
<1>0. tabs \in SUBSET File /\ active \in File \cup {Absent}
  BY DEF TreeInv, TreeTypes, PageTypes, Asked
<1>1. /\ Take("created") /\ Told(Head(inbox))
      /\ Rendered(Upserted(Head(inbox).file, Head(inbox).at), tabs,
           active, closedAll)
      /\ UNCHANGED <<server, fileFetch, known, folderFetch, local, joined,
                     op, bounds>>
  BY DEF FileCreated
<1> QED
  BY <1>0, <1>1, Setting

LEMMA FileDeletedInv ==
    ASSUME TreeInv, FileDeleted
    PROVE  TreeInv' /\ \A f \in tabs \ tabs' : path[f] = Absent
<1> DEFINE e == Head(inbox)
           A == IF active = e.file THEN Absent ELSE active
<1>0. tabs \ {e.file} \in SUBSET File /\ A \in File \cup {Absent}
  BY DEF TreeInv, TreeTypes, PageTypes, Asked
<1>1. /\ Take("deleted") /\ Told(e)
      /\ Rendered(Upserted(e.file, Absent), tabs \ {e.file}, A,
           closedAll)
      /\ UNCHANGED <<server, fileFetch, known, folderFetch, local, joined,
                     op, bounds>>
  BY DEF FileDeleted
<1>2. UNCHANGED <<path, created>>
  BY <1>1 DEF server
<1>3. e.at = Absent
  BY <1>1, <1>2, HeadGone
<1> HIDE DEF A, e
<1> QED
  BY <1>0, <1>1, <1>3, Setting DEF e

\* The list is asked for again.
LEMMA AskedAnew ==
    ASSUME TreeInv, NEW L, InvalidateFiles(L),
           UNCHANGED <<path, created, folders, folderFetch, known>>,
           Onlist' \in Table, \A f \in File : f > created =>
           Onlist'[f] = Absent
    PROVE  Made' /\ FilesFollow' /\ FoldersFollow'
<1>0. TreeTypes
  BY DEF TreeInv
<1>1. /\ ("folders" \in behind' <=> "folders" \in behind)
      /\ fileFetch' \in {fileFetch, Query("asked", Nothing)}
      /\ \/ fileFetch'.state = "asked"
         \/ fileFetch' = fileFetch /\ fileFetch.state = "answered"
              /\ fileFetch.snap = path
         \/ "files" \in behind'
  BY <1>0, Invalidating
<1>2. Query("asked", Nothing).snap = Nothing
  BY DEF Query, Asked
<1> QED
  BY <1>0, <1>1, <1>2, TreeNumbers DEF TreeInv, Made, FilesFollow,
     FoldersFollow

\* Events, and a socket that comes and goes.
LEMMA FileUpdatedInv ==
    ASSUME TreeInv, FileUpdated PROVE TreeInv'
<1>0. TreeTypes
  BY DEF TreeInv
<1>1. Take("updated") /\ InvalidateFiles(list) /\ UNCHANGED <<path,
        created, folders, list, known, folderFetch, local, tabs, active,
          closedAll, joined, op, changes, cuts, Onlist>>
  BY DEF FileUpdated, server, view, bounds, Onlist
<1>2. Events' /\ inbox' \in Seq(Event)
  BY <1>1, HeadGone
<1>3. TreeTypes'
  BY <1>0, <1>1, <1>2, Invalidating DEF TreeTypes, ServerTypes, PageTypes,
     RequestTypes, Asked
<1>4. Made' /\ FilesFollow' /\ FoldersFollow'
  BY <1>0, <1>1, AskedAnew, TreeNumbers DEF TreeInv, Made
<1>5. Asks' /\ Opened'
  BY <1>1 DEF TreeInv, Asks, Opened
<1> QED
  BY <1>2, <1>3, <1>4, <1>5 DEF TreeInv

LEMMA JoinInv ==
    ASSUME TreeInv, Join PROVE TreeInv'
<1>1. joined' = TRUE /\ UNCHANGED <<path, created, folders, list, fileFetch, known,
                                    folderFetch, local, tabs, active,
                                      closedAll, inbox, op, behind, changes,
                                        cuts, Onlist>>
  BY DEF Join, server, view, queries, bounds,
     Onlist
<1> QED
  BY <1>1 DEF TreeInv, TreeTypes, ServerTypes, PageTypes, RequestTypes,
     Made, Events, Asks, Opened, FilesFollow, FoldersFollow, Asked

\* A socket that is cut loses its events, and the page falls behind.
LEMMA GoneInv ==
    ASSUME TreeInv, inbox' = <<>>, joined' = FALSE,
           cuts < MaxCut, cuts' = cuts + 1,
           behind' = IF inbox = <<>> THEN behind
           ELSE behind \cup ({"files"} \cap NotAsked),
           folders' \in {folders, {}}, op' \in {op, Idle},
           UNCHANGED <<path, created, queries, view, changes>>
    PROVE  TreeInv'
<1>0. TreeTypes
  BY DEF TreeInv
<1>1. UNCHANGED <<path, created, list, fileFetch, known, folderFetch, local, tabs,
                  active, closedAll, changes, Onlist>>
  BY DEF view, queries, Onlist
<1>2. Len(inbox') = 0 /\ inbox' \in Seq(Event)
  OBVIOUS
<1>3. cuts' \in 0 .. MaxCut
    BY <1>0, ExplorerAssumption DEF TreeTypes, RequestTypes
<1>4. TreeTypes'
  BY <1>0, <1>1, <1>2, <1>3 DEF TreeTypes, ServerTypes, PageTypes,
     RequestTypes, Asked
<1>5. Made' /\ Events' /\ Asks' /\ Opened' /\ FoldersFollow'
  BY <1>1, <1>2 DEF TreeInv, Made, Events, Asks, Opened, FoldersFollow
<1>6. FilesFollow'
  <2>1. CASE inbox = <<>>
    BY <1>1, <2>1 DEF TreeInv, FilesFollow
  <2>2. CASE inbox # <<>>
    BY <1>1, <2>2 DEF FilesFollow, NotAsked
  <2> QED
    BY <2>1, <2>2
<1> QED
  BY <1>4, <1>5, <1>6 DEF TreeInv

LEMMA CutInv ==
    ASSUME TreeInv, Cut PROVE TreeInv'
BY GoneInv DEF Cut, server

LEMMA RestartInv ==
    ASSUME TreeInv, Restart PROVE TreeInv'
BY GoneInv DEF Restart

\* Requests that the user makes are of what is listed.
LEMMA AskInv ==
    ASSUME TreeInv, NEW o \in Asking, Ask(o),
           o.state = "sent",
           o.kind \in {"create", "import", "rename"} => o.at \in Path,
           o.kind \in {"rename", "delete"} => list # Unknown
           /\ o.file \in 1 .. created,
           o.kind \in {"createFolder", "renameFolder", "deleteFolder"} =>
           o.dir \in Folder,
           o.kind = "renameFolder" => o.to \in Folder
    PROVE  TreeInv'
<1>0. TreeTypes
  BY DEF TreeInv
<1>1. op' = o /\ changes < MaxChange /\ changes' = changes + 1
        /\ UNCHANGED <<path, created, folders, list, fileFetch, known, folderFetch,
                       local, tabs, active, closedAll, inbox, joined, behind,
                         cuts, Onlist>>
  BY DEF Ask, server, view, queries, socket, Onlist
<1>2. changes' \in 0 .. MaxChange
    BY <1>0, <1>1, ExplorerAssumption DEF TreeTypes, RequestTypes
<1>3. TreeTypes'
  BY <1>0, <1>1, <1>2 DEF TreeTypes, ServerTypes, PageTypes, RequestTypes,
     Asked
<1>4. Asks'
  BY <1>1 DEF Asks
<1> QED
  BY <1>1, <1>3, <1>4 DEF TreeInv, Made, Events, Opened, FilesFollow,
     FoldersFollow

LEMMA Requests ==
    ASSUME NEW k \in {"create", "import", "rename", "delete", "createFolder",
           "renameFolder",
                   "deleteFolder"}, NEW f \in 0 .. MaxFile,
                     NEW p \in Path \cup {Absent},
           NEW d \in Dir, NEW e \in Dir
    PROVE  /\ Request(k, f, p, d, e) \in Asking
                /\ Request(k, f, p, d, e).state = "sent"
           /\ Request(k, f, p, d, e).kind = k
                /\ Request(k, f, p, d, e).at = p
           /\ Request(k, f, p, d, e).file = f
                /\ Request(k, f, p, d, e).dir = d
                     /\ Request(k, f, p, d, e).to = e
BY DEF Request, Asking, Kind

\* A file that is listed has been made.
LEMMA ListedFiles ==
    ASSUME TreeInv,
           NEW f \in Existing(OrElse(list, Nothing))
    PROVE  f \in 1 .. created /\ f \in File /\ list # Unknown
             /\ list \in Table /\ list[f] \in Path /\ f \in 0 .. MaxFile
<1>0. TreeTypes
  BY DEF TreeInv
<1>1. f \in File /\ Onlist[f] # Absent
  BY DEF Existing, Onlist
<1>2. list # Unknown
  BY <1>0, <1>1, TreeNumbers DEF Onlist, OrElse
<1> QED
  BY <1>0, <1>1, <1>2, TreeNumbers DEF Onlist, OrElse, TreeInv, Made,
     TreeTypes, PageTypes, Table, Asked

LEMMA AskingInv ==
    ASSUME TreeInv,
           AskCreate \/ AskImport \/ AskRename \/ AskDelete
    PROVE  TreeInv'
<1>0. TreeTypes /\ MaxFile \in Nat
  BY TreeNumbers DEF TreeInv
<1>1. ASSUME NEW p \in Path,
             Ask(Request("create", 0, p, Root, Root))
      PROVE  TreeInv'
  BY <1>0, <1>1, AskInv, Requests DEF Dir, Kind
<1>2. ASSUME NEW d \in Folder,
             Ask(Request("createFolder", 0, Absent, d, Root))
      PROVE  TreeInv'
  BY <1>0, <1>2, AskInv, Requests DEF Dir, Kind
<1>3. ASSUME NEW p \in Path,
             Ask(Request("import", 0, p, Root, Root))
      PROVE  TreeInv'
  BY <1>0, <1>3, AskInv, Requests DEF Dir, Kind
<1>4. ASSUME NEW f \in Existing(OrElse(list, Nothing)),
             NEW n \in Name,
             Ask(Request("rename", f, [list[f] EXCEPT !.name = n],
               Root, Root)) PROVE TreeInv'
  <2>1. f \in 1 .. created /\ list # Unknown /\ list[f] \in Path
          /\ f \in 0 .. MaxFile
    BY ListedFiles
  <2>2. [list[f] EXCEPT !.name = n] \in Path
    BY <2>1 DEF Path
  <2> DEFINE o ==
        Request("rename", f, [list[f] EXCEPT !.name = n], Root,
          Root)
  <2>3. /\ o \in Asking /\ o.state = "sent" /\ o.kind = "rename" /\ o.file = f
        /\ o.at \in Path
    BY <2>1, <2>2, Requests DEF Dir, Kind
  <2> HIDE DEF o
  <2>4. Ask(o)
    BY <1>4 DEF o
  <2> QED
    BY <2>1, <2>3, <2>4, AskInv
<1>5. ASSUME NEW d \in ShownFolders, NEW e \in Folder,
             Ask(Request("renameFolder", 0, Absent, d, e))
      PROVE  TreeInv'
  BY <1>0, <1>5, AskInv, Requests, ShownAreFolders DEF Dir, Kind
<1>6. ASSUME NEW f \in Existing(OrElse(list, Nothing)),
             Ask(Request("delete", f, Absent, Root, Root))
      PROVE  TreeInv'
  <2>1. f \in 1 .. created /\ list # Unknown /\ f \in 0 .. MaxFile
    BY ListedFiles
  <2> DEFINE o == Request("delete", f, Absent, Root, Root)
  <2>2. o \in Asking /\ o.state = "sent" /\ o.kind = "delete" /\ o.file = f
    BY <2>1, Requests DEF Dir, Kind
  <2> HIDE DEF o
  <2>3. Ask(o)
    BY <1>6 DEF o
  <2> QED
    BY <2>1, <2>2, <2>3, AskInv
<1>7. ASSUME NEW d \in ShownFolders,
             Ask(Request("deleteFolder", 0, Absent, d, Root))
      PROVE  TreeInv'
  BY <1>0, <1>7, AskInv, Requests, ShownAreFolders DEF Dir, Kind
<1> QED
  BY <1>1, <1>2, <1>3, <1>4, <1>5, <1>6, <1>7 DEF AskCreate,
     AskImport, AskRename, AskDelete

\* A list that stays is rendered.
LEMMA Browsing ==
    ASSUME TreeInv, NEW T \in SUBSET File,
           NEW A \in File \cup {Absent}, NEW C \in BOOLEAN,
           Rendered(list, T, A, C), T \subseteq Existing(Onlist),
           list # Unknown,
           UNCHANGED <<server, fileFetch, known, folderFetch, local,
                       socket, op, behind, bounds>>
    PROVE  TreeInv' /\ T \subseteq tabs'
<1>0. TreeTypes
  BY DEF TreeInv
<1>1. UNCHANGED <<path, created, folders, fileFetch, known, folderFetch, local,
                  joined, inbox, op, behind, changes, cuts>>
  BY DEF server, socket, bounds
<1>2. list \in Table /\ Onlist = list
  BY <1>0 DEF TreeTypes, PageTypes, Onlist, OrElse, Asked
<1>3. /\ list' = list /\ Onlist' = list
      /\ tabs' \subseteq Existing(list) /\ tabs' \subseteq File
           /\ T \cap Existing(list) \subseteq tabs'
      /\ active' \in File \cup {Absent} /\ closedAll' \in BOOLEAN
  <2>1. /\ list \in Table /\ T \in SUBSET File
             /\ A \in File \cup {Absent}
        /\ C \in BOOLEAN /\ Rendered(list, T, A, C)
        /\ (list = list => T \subseteq Existing(list))
    BY <1>2
  <2>2. TreeTypes
    BY <1>0
  <2> QED
    BY <2>1, <2>2, Rendering
<1>4. TreeTypes'
  BY <1>0, <1>1, <1>2, <1>3 DEF TreeTypes, ServerTypes, PageTypes,
     RequestTypes, Asked
<1> QED
  BY <1>1, <1>2, <1>3, <1>4 DEF TreeInv, Made, Events, Asks, Opened,
     FilesFollow, FoldersFollow

\* An open tab is of a file in the list.
LEMMA TabFiles ==
    ASSUME TreeInv, NEW f \in tabs
    PROVE  f \in Existing(OrElse(list, Nothing))
             /\ f \in File /\ list # Unknown
BY ListedFiles DEF TreeInv, Opened, Onlist

LEMMA CloseAllInv ==
    ASSUME TreeInv, CloseAll PROVE TreeInv'
<1>1. list # Unknown
  BY TabFiles DEF CloseAll
<1>2. Rendered(list, {}, Absent, TRUE)
      /\ UNCHANGED <<server, fileFetch, known, folderFetch, local,
                     socket, op, behind, bounds>>
  BY DEF CloseAll
<1>3. {} \in SUBSET File /\ {} \subseteq Existing(Onlist)
        /\ TRUE \in BOOLEAN /\ Absent \in File \cup {Absent}
  OBVIOUS
<1> QED
  BY <1>1, <1>2, <1>3, Browsing

LEMMA OpenInv ==
    ASSUME TreeInv, NEW f \in File, Open(f)
    PROVE  TreeInv' /\ tabs \subseteq tabs'
<1>1. f \in Existing(Onlist) /\ list # Unknown
  BY ListedFiles DEF Open, Onlist
<1>2. tabs \cup {f} \in SUBSET File
        /\ tabs \cup {f} \subseteq Existing(Onlist)
  BY <1>1 DEF TreeInv, Opened, TreeTypes, PageTypes, Asked
<1>3. Rendered(list, tabs \cup {f}, f, FALSE)
      /\ UNCHANGED <<server, fileFetch, known, folderFetch, local,
                     socket, op, behind, bounds>>
  BY DEF Open
<1> QED
  BY <1>1, <1>2, <1>3, Browsing

LEMMA CloseOthersInv ==
    ASSUME TreeInv, NEW f \in File,
           CloseOthers(f)
    PROVE  TreeInv'
<1>1. f \in Existing(Onlist) /\ list # Unknown
  BY TabFiles DEF CloseOthers, Onlist
<1>2. Rendered(list, {f}, f, FALSE)
      /\ UNCHANGED <<server, fileFetch, known, folderFetch, local,
                     socket, op, behind, bounds>>
  BY DEF CloseOthers
<1>3. {f} \in SUBSET File /\ {f} \subseteq Existing(Onlist)
        /\ FALSE \in BOOLEAN /\ f \in File \cup {Absent}
  BY <1>1
<1> QED
  BY <1>1, <1>2, <1>3, Browsing

\* Closing one tab renders the others.
LEMMA TabClosedRenders ==
    ASSUME TreeInv, NEW f, TabClosed(f)
    PROVE  \E g \in File \cup {Absent},
             C \in BOOLEAN : Rendered(list, tabs \ {f}, g, C)
<1>1. PICK g \in IF active # f THEN {active} ELSE IF tabs \ {f} = {}
             THEN {Absent} ELSE tabs \ {f} :
        Rendered(list, tabs \ {f}, g, closedAll \/ tabs \ {f} = {})
  BY DEF TabClosed
<1>2. g \in File \cup {Absent}
        /\ (closedAll \/ tabs \ {f} = {}) \in BOOLEAN
  BY <1>1 DEF TreeInv, TreeTypes, PageTypes, Asked
<1> QED
  BY <1>1, <1>2

LEMMA CloseTabInv ==
    ASSUME TreeInv, NEW f \in File,
           CloseTab(f)
    PROVE  TreeInv'
<1>1. list # Unknown
  BY TabFiles DEF CloseTab
<1>2. TabClosed(f)
      /\ UNCHANGED <<server, fileFetch, known, folderFetch, local,
                     socket, op, behind, bounds>>
  BY DEF CloseTab
<1>3. PICK g \in File \cup {Absent},
             C \in BOOLEAN : Rendered(list, tabs \ {f}, g, C)
  BY <1>2, TabClosedRenders
<1>4. tabs \ {f} \in SUBSET File
        /\ tabs \ {f} \subseteq Existing(Onlist)
  BY DEF TreeInv, Opened, TreeTypes, PageTypes, Asked
<1> QED
  BY <1>1, <1>2, <1>3, <1>4, Browsing

-------------------------------------------------------------------------------
(* The requests of the page, and everybody else                            *)

\* A request that is served keeps what it asked for.
LEMMA AskKinds ==
    ASSUME TreeInv, op # Idle
    PROVE  op \in Asking
BY DEF TreeInv, TreeTypes, RequestTypes

LEMMA Dones ==
    ASSUME TreeInv, op # Idle, NEW f \in 0 .. MaxFile, Done(f)
    PROVE  /\ op' \in Asking /\ op' # Idle /\ op'.state = "done"
                /\ op'.file = f
           /\ op'.kind = op.kind /\ op'.at = op.at /\ op'.dir = op.dir
                /\ op'.to = op.to
<1>1. op \in Asking
  BY AskKinds
<1>2. op' = [op EXCEPT !.state = "done", !.file = f]
  BY DEF Done
<1>3. op' \in Asking /\ op'.state = "done" /\ op'.file = f
      /\ op'.kind = op.kind /\ op'.at = op.at /\ op'.dir = op.dir
           /\ op'.to = op.to
  BY <1>1, <1>2 DEF Asking, Kind
<1>4. op' # Idle
  BY <1>1, <1>3 DEF Idle, Asking, Kind
<1> QED
  BY <1>3, <1>4

\* The server has carried out the request, which concerns file f.
LEMMA Carried ==
    ASSUME TreeInv, op # Idle,
           op.state = "sent", NEW f \in 0 .. MaxFile, Done(f), Changing,
           UNCHANGED <<queries, view, joined, bounds>>,
           op.kind = "create" => f \in 1 .. created',
           op.kind \in {"rename", "delete"} => f = op.file,
           op.kind = "delete" => path'[f] = Absent
    PROVE  TreeInv'
<1>1. Served' /\ Grows
  BY Serving
<1>2. /\ op' \in Asking /\ op' # Idle /\ op'.state = "done" /\ op'.file = f
      /\ op'.kind = op.kind /\ op'.at = op.at /\ op'.dir = op.dir
           /\ op'.to = op.to
  BY Dones
<1>3. TreeTypes'
  BY <1>1, <1>2 DEF TreeInv, Served, TreeTypes, PageTypes, RequestTypes,
     queries, view, bounds, Asked
<1>4. Asks'
  <2>1. Asks /\ list' = list
    BY DEF TreeInv, queries
  <2>2. created \in Nat /\ created' \in Nat /\ created <= created'
    BY <1>1, <1>3 DEF TreeInv, TreeTypes, ServerTypes, Grows, File
  <2> QED
    BY <1>2, <2>1, <2>2 DEF Asks
<1> QED
  BY <1>1, <1>3, <1>4 DEF TreeInv, Served

LEMMA ServeInv ==
    ASSUME TreeInv, Serve
    PROVE  TreeInv' /\ tabs' = tabs
<1>0. /\ UNCHANGED <<queries, view, joined, bounds>>
           /\ tabs' = tabs
      /\ MaxFile \in Nat /\ created \in 1 .. MaxFile /\ 0 \in 0 .. MaxFile
      /\ Asks /\ path \in Table
  BY TreeNumbers DEF Serve, TreeInv, view, TreeTypes, ServerTypes
<1>1. ASSUME Sent("create"), CreateFile(op.at), Done(created + 1)
      PROVE  TreeInv'
  <2>1. op.at \in Path /\ created' = created + 1 /\ created + 1 \in 1 .. MaxFile
    BY <1>0, <1>1 DEF Sent, Asks, CreateFile
  <2> QED
    BY <1>0, <1>1, <2>1, Carried DEF Sent, Changing
<1>2. ASSUME Sent("import"), ImportFile(op.at), Done(0)
      PROVE  TreeInv'
  <2>1. op.at \in Path
    BY <1>0, <1>2 DEF Sent, Asks
  <2> QED
    BY <1>0, <1>2, <2>1, Carried DEF Sent, Changing
<1>3. ASSUME Sent("rename"), RenameFile(op.file, op.at),
             Done(op.file)
      PROVE  TreeInv'
  <2>1. op.at \in Path /\ op.file \in 1 .. created
          /\ op.file \in 0 .. MaxFile
    BY <1>0, <1>3 DEF Sent, Asks
  <2> QED
    BY <1>0, <1>3, <2>1, Carried DEF Sent, Changing
<1>4. ASSUME Sent("delete"), DeleteFile(op.file), Done(op.file)
      PROVE  TreeInv'
  <2>1. op.file \in 1 .. created /\ op.file \in 0 .. MaxFile
    BY <1>0, <1>4 DEF Sent, Asks
  <2>2. path'[op.file] = Absent
    BY <1>0, <1>4, <2>1, TreeNumbers DEF DeleteFile, Table, TreeInv
  <2> QED
    BY <1>0, <1>4, <2>1, <2>2, Carried DEF Sent, Changing
<1>5. ASSUME Sent("createFolder"), CreateFolder(op.dir), Done(0)
      PROVE  TreeInv'
  BY <1>0, <1>5, Carried DEF Sent, Changing, Asks
<1>6. ASSUME Sent("renameFolder"), RenameFolder(op.dir, op.to),
             Done(0)
      PROVE  TreeInv'
  BY <1>0, <1>6, Carried DEF Sent, Changing, Asks
<1>7. ASSUME Sent("deleteFolder"), DeleteFolder(op.dir), Done(0)
      PROVE  TreeInv'
  BY <1>0, <1>7, Carried DEF Sent, Changing, Asks
<1> QED
  BY <1>0, <1>1, <1>2, <1>3, <1>4, <1>5, <1>6, <1>7 DEF Serve

LEMMA FailsInv ==
    ASSUME TreeInv, Fails PROVE TreeInv'
<1>1. op' = Idle /\ UNCHANGED <<path, created, folders, list, fileFetch,
                                     known, folderFetch, local, tabs, active,
                                       closedAll, inbox, joined, behind,
                                         changes, cuts, Onlist>>
  BY DEF Fails, server, view, queries, socket,
     bounds, Onlist
<1> QED
  BY <1>1 DEF TreeInv, TreeTypes, ServerTypes, PageTypes, RequestTypes,
     Made, Events, Asks, Opened, FilesFollow, FoldersFollow, Asked

\* The answer is in the list that is shown, and that is asked for again.
LEMMA Answering ==
    ASSUME TreeInv, NEW L \in Table, list' = L,
           Onlist' = L, tabs' \subseteq Existing(L),
           tabs' \subseteq File,
           active' \in File \cup {Absent}, closedAll' \in BOOLEAN,
           \A f \in File : f > created => L[f] = Absent,
           InvalidateFiles(L), op' = Idle,
           UNCHANGED <<server, known, folderFetch, local, socket,
                       bounds>>
    PROVE  TreeInv'
<1>0. TreeTypes
  BY DEF TreeInv
<1>1. UNCHANGED <<path, created, folders, known, folderFetch, local, joined,
                  inbox, changes, cuts>>
  BY DEF server, socket, bounds
<1>2. TreeTypes'
  BY <1>0, <1>1, Invalidating DEF TreeTypes, ServerTypes, PageTypes,
     RequestTypes, Asked
<1>3. Made' /\ FilesFollow' /\ FoldersFollow'
  BY <1>1, AskedAnew
<1>4. Events' /\ Asks' /\ Opened'
  BY <1>1 DEF TreeInv, Events, Asks, Opened
<1> QED
  BY <1>2, <1>3, <1>4 DEF TreeInv

\* A file that was created or renamed is listed, and no tab closed.
LEMMA UpsertAnswered ==
    ASSUME TreeInv,
           QueryAnswered("create") \/ QueryAnswered("rename"),
           NEW T \in SUBSET File, NEW A \in File \cup {Absent},
           T \in {tabs, tabs \cup {op.file}},
           Rendered(Upserted(op.file, op.at), T, A, closedAll),
           InvalidateFiles(Upserted(op.file, op.at)), op' = Idle,
           UNCHANGED <<server, known, folderFetch, local, socket,
                       bounds>>
    PROVE  TreeInv' /\ tabs \subseteq tabs'
<1> DEFINE L == Upserted(op.file, op.at)
<1>0. TreeTypes /\ closedAll \in BOOLEAN
  BY DEF TreeInv, TreeTypes, PageTypes, Asked
<1>1. op.file \in 1 .. created /\ op.file \in File /\ op.at \in Path
        /\ op.at # Absent
  BY <1>0, TreeNumbers, ExplorerAssumption DEF TreeInv, Asks, QueryAnswered
<1>2. L \in Table /\ \A g \in File : L[g] = IF g = op.file THEN op.at
        ELSE Onlist[g]
  BY <1>0, <1>1, Upserts
<1>3. Rendered(L, T, A, closedAll) /\ InvalidateFiles(L)
  OBVIOUS
<1> HIDE DEF L
<1>4. T \subseteq Existing(L)
  BY <1>1, <1>2 DEF TreeInv, Opened, Existing
<1>5. /\ list' = L /\ Onlist' = L /\ list' \in Table
      /\ tabs' \subseteq Existing(L) /\ tabs' \subseteq File
           /\ T \cap Existing(L) \subseteq tabs'
      /\ active' \in File \cup {Absent} /\ closedAll' \in BOOLEAN
  BY <1>0, <1>2, <1>3, <1>4, Rendering
<1>6. \A f \in File : f > created => L[f] = Absent
  BY <1>0, <1>1, <1>2, TreeNumbers DEF TreeInv, Made
<1>7. TreeInv'
  BY <1>2, <1>3, <1>5, <1>6, Answering
<1> QED
  BY <1>4, <1>5, <1>7

LEMMA CreateAnsweredInv ==
    ASSUME TreeInv, CreateAnswered
    PROVE  TreeInv' /\ tabs \subseteq tabs'
<1>1. op.file \in File
  BY TreeNumbers DEF TreeInv, Asks, CreateAnswered, QueryAnswered
<1>2. tabs \cup {op.file} \in SUBSET File
  BY <1>1 DEF TreeInv, TreeTypes, PageTypes, Asked
<1>3. /\ QueryAnswered("create")
           /\ Rendered(Upserted(op.file, op.at),
                tabs \cup {op.file}, op.file, closedAll)
      /\ InvalidateFiles(Upserted(op.file, op.at)) /\ op' = Idle
      /\ UNCHANGED <<server, known, folderFetch, local, socket,
                     bounds>>
  BY DEF CreateAnswered
<1> QED
  BY <1>1, <1>2, <1>3, UpsertAnswered

LEMMA RenameAnsweredInv ==
    ASSUME TreeInv, RenameAnswered
    PROVE  TreeInv' /\ tabs \subseteq tabs'
<1>2. tabs \in SUBSET File /\ active \in File \cup {Absent}
  BY DEF TreeInv, TreeTypes, PageTypes, Asked
<1>3. /\ QueryAnswered("rename")
           /\ Rendered(Upserted(op.file, op.at), tabs, active,
                closedAll)
      /\ InvalidateFiles(Upserted(op.file, op.at)) /\ op' = Idle
      /\ UNCHANGED <<server, known, folderFetch, local, socket,
                     bounds>>
  BY DEF RenameAnswered
<1> QED
  BY <1>2, <1>3, UpsertAnswered

LEMMA DeleteAnsweredInv ==
    ASSUME TreeInv, DeleteAnswered
    PROVE  TreeInv' /\ \A f \in tabs \ tabs' : path[f] = Absent
<1>0. TreeTypes
  BY DEF TreeInv
<1>1. /\ TabClosed(op.file) /\ InvalidateFiles(list)
           /\ op' = Idle
      /\ UNCHANGED <<server, known, folderFetch, local, socket,
                     bounds>>
  BY DEF DeleteAnswered
<1>2. list # Unknown /\ path[op.file] = Absent
  BY DEF DeleteAnswered, QueryAnswered, TreeInv, Asks
<1>3. list \in Table /\ Onlist = list
  BY <1>0, <1>2 DEF TreeTypes, PageTypes, Onlist, OrElse, Asked
<1>4. PICK g \in File \cup {Absent},
             C \in BOOLEAN : Rendered(list, tabs \ {op.file}, g, C)
  BY <1>1, TabClosedRenders
<1>5. tabs \ {op.file} \in SUBSET File
        /\ tabs \ {op.file} \subseteq Existing(list)
  BY <1>3 DEF TreeInv, Opened, TreeTypes, PageTypes, Asked
<1>6. /\ list' = list /\ Onlist' = list
      /\ tabs' \subseteq Existing(list) /\ tabs' \subseteq File
      /\ (tabs \ {op.file}) \cap Existing(list) \subseteq tabs'
      /\ active' \in File \cup {Absent} /\ closedAll' \in BOOLEAN
  BY <1>0, <1>3, <1>4, <1>5, Rendering
<1>7. \A f \in File : f > created => list[f] = Absent
  BY <1>3 DEF TreeInv, Made
<1>8. TreeInv'
  BY <1>1, <1>3, <1>6, <1>7, Answering
<1> QED
  BY <1>2, <1>5, <1>6, <1>8

\* The folders are asked for again.
LEMMA FoldersAsked ==
    ASSUME TreeInv, InvalidateFolders, local' \subseteq Folder,
           op' = Idle,
           UNCHANGED <<server, list, fileFetch, known, view,
                       socket, bounds>>
    PROVE  TreeInv'
<1>0. TreeTypes
  BY DEF TreeInv
<1>1. UNCHANGED <<path, created, folders, list, fileFetch, known, tabs, active,
                  closedAll, joined, inbox, changes, cuts, Onlist>>
  BY DEF server, view, socket, bounds, Onlist
<1>2. /\ folderFetch' \in [state : Asked,
           snap : SUBSET Folder]
      /\ behind' \subseteq {"files", "folders"}
           /\ ("files" \in behind' <=> "files" \in behind)
      /\ \/ folderFetch'.state = "asked"
         \/ folderFetch' = folderFetch /\ folderFetch.state = "answered"
              /\ folders \subseteq folderFetch.snap
         \/ "folders" \in behind'
  BY <1>0, InvalidatingFolders
<1>3. TreeTypes'
  BY <1>0, <1>1, <1>2 DEF TreeTypes, ServerTypes, PageTypes, RequestTypes,
     Asked
<1>4. Made' /\ Events' /\ Asks' /\ Opened'
  BY <1>1 DEF TreeInv, Made, Events, Asks, Opened
<1>5. FilesFollow' /\ FoldersFollow'
  BY <1>1, <1>2 DEF TreeInv, FilesFollow, FoldersFollow
<1> QED
  BY <1>3, <1>4, <1>5 DEF TreeInv

LEMMA CreateFolderAnsweredInv ==
    ASSUME TreeInv, CreateFolderAnswered PROVE TreeInv' /\ tabs' = tabs
<1>1. op.dir \in Folder
  BY DEF CreateFolderAnswered, QueryAnswered, TreeInv, Asks
<1>2. local' \subseteq Folder
  BY <1>1 DEF CreateFolderAnswered, TreeInv, TreeTypes, PageTypes,
     Asked
<1> QED
  BY <1>2, FoldersAsked DEF CreateFolderAnswered, view

LEMMA SettledInv ==
    ASSUME TreeInv, FoldersSettled PROVE TreeInv' /\ tabs' = tabs
<1>1. local' \subseteq Folder
  BY DEF FoldersSettled, TreeInv, TreeTypes, PageTypes, Asked
<1> QED
  BY <1>1, FoldersAsked DEF FoldersSettled, view

\* The list is asked for again, and then the folders.
LEMMA Settling ==
    ASSUME TreeInv, op # Idle, NEW L,
           InvalidateFiles(L), Settles, local' \subseteq Folder,
           tabs' \subseteq tabs,
           op.kind \notin {"create", "rename", "delete"},
           UNCHANGED <<server, list, known, folderFetch, active,
                       closedAll, socket, bounds>>
    PROVE  TreeInv'
<1>0. TreeTypes /\ op \in Asking
  BY AskKinds DEF TreeInv
<1>1. UNCHANGED <<path, created, folders, list, known, folderFetch, active,
                  closedAll, joined, inbox, changes, cuts, Onlist>>
  BY DEF server, socket, bounds, Onlist
<1>2. /\ op' \in Asking /\ op'.kind = op.kind /\ op'.at = op.at
           /\ op'.dir = op.dir /\ op'.to = op.to
      /\ op'.state = "settling"
  BY <1>0 DEF Settles, Asking, Kind
<1>3. TreeTypes'
  BY <1>0, <1>1, <1>2, Invalidating DEF TreeTypes, ServerTypes, PageTypes,
     RequestTypes, Asked
<1>4. Made' /\ FilesFollow' /\ FoldersFollow'
  BY <1>0, <1>1, AskedAnew, TreeNumbers DEF TreeInv, Made
<1>5. Asks'
  BY <1>1, <1>2 DEF TreeInv, Asks
<1>6. Events' /\ Opened'
  BY <1>1 DEF TreeInv, Events, Opened
<1> QED
  BY <1>3, <1>4, <1>5, <1>6 DEF TreeInv

LEMMA ImportAnsweredInv ==
    ASSUME TreeInv, ImportAnswered
    PROVE  TreeInv' /\ tabs' = tabs
BY Settling DEF ImportAnswered, QueryAnswered, view, TreeInv,
   TreeTypes, PageTypes, Asked

LEMMA RenameFolderAnsweredInv ==
    ASSUME TreeInv, RenameFolderAnswered
    PROVE  TreeInv' /\ tabs' = tabs
<1>1. op.to \in Folder /\ op # Idle /\ op.kind = "renameFolder"
  BY DEF RenameFolderAnswered, QueryAnswered, TreeInv, Asks
<1>2. local' \subseteq Folder
  BY <1>1 DEF RenameFolderAnswered, Replaced, TreeInv, TreeTypes,
     PageTypes, Asked
<1> QED
  BY <1>1, <1>2, Settling DEF RenameFolderAnswered, view

\* Only tabs of files in the folder are closed.
LEMMA DeleteFolderAnsweredInv ==
    ASSUME TreeInv, DeleteFolderAnswered
    PROVE  TreeInv' /\ \A f \in tabs \ tabs' : f \in Inside(list, op.dir)
<1>1. op # Idle /\ op.kind = "deleteFolder"
  BY DEF DeleteFolderAnswered, QueryAnswered
<1>2. local' \subseteq Folder
  BY DEF DeleteFolderAnswered, TreeInv, TreeTypes, PageTypes, Asked
<1>3. tabs' = (tabs \cap Existing(Onlist)) \ Inside(Onlist, op.dir)
  BY DEF DeleteFolderAnswered, Onlist
<1>4. TreeInv'
  BY <1>1, <1>2, <1>3, Settling DEF DeleteFolderAnswered
<1>5. ASSUME NEW f \in tabs \ tabs' PROVE f \in Inside(list, op.dir)
  <2>1. list # Unknown
    BY TabFiles
  <2>2. f \in Inside(Onlist, op.dir)
    BY <1>3 DEF TreeInv, Opened
  <2> QED
    BY <2>1, <2>2 DEF Onlist, OrElse
<1> QED
  BY <1>4, <1>5

\* Everybody else.
LEMMA OthersInv ==
    ASSUME TreeInv, Others
    PROVE  TreeInv' /\ tabs' = tabs
<1>0. TreeTypes
  BY DEF TreeInv
<1>1. /\ changes < MaxChange /\ changes' = changes + 1
           /\ UNCHANGED <<queries, view, joined, op, cuts>>
      /\ tabs' = tabs /\ list' = list
  BY DEF Others, view, queries
<1>2. changes' \in 0 .. MaxChange
    BY <1>0, <1>1, ExplorerAssumption DEF TreeTypes, RequestTypes
<1>3. \A f \in File : path[f] # Absent => f \in 1 .. created
  BY <1>0, TreeNumbers DEF TreeInv, Made
<1>4. Changing
  BY <1>3 DEF Others, Changing, RenameFile, DeleteFile,
     RestoreFileEntry, RestoreProjectEntry
<1>5. Served' /\ Grows
  BY <1>1, <1>4, Serving
<1>6. TreeTypes'
  BY <1>0, <1>1, <1>2, <1>5 DEF Served, TreeTypes, PageTypes, RequestTypes,
     queries, view, Asked
<1>7. Asks'
  <2>1. created \in Nat /\ created' \in Nat /\ created <= created'
    BY <1>0, <1>6, <1>5 DEF TreeTypes, ServerTypes, Grows, File
  <2>2. op # Idle /\ op.kind = "delete" => op.file \in 1 .. created
    BY DEF TreeInv, Asks
  <2> QED
    BY <1>1, <1>5, <2>1, <2>2 DEF TreeInv, Asks, Grows
<1> QED
  BY <1>1, <1>5, <1>6, <1>7 DEF TreeInv, Served

\* The invariant holds at first, and every step keeps it.
LEMMA TreeInitInv == ExplorerInit => TreeInv
<1> SUFFICES ASSUME ExplorerInit PROVE TreeInv
  OBVIOUS
<1> USE ExplorerAssumption
<1>0. Nothing \in Table /\ \A f \in File : Nothing[f] = Absent
  BY DEF Nothing, Table
<1>1. PICK p \in Path : path = [Nothing EXCEPT ![1] = p]
  BY DEF ExplorerInit
<1>2. 1 \in File /\ path \in Table /\ \A f \in File : f > 1 =>
        path[f] = Absent
  BY <1>0, <1>1 DEF File, Table
<1>3. /\ created = 1 /\ folders = {}
      /\ list = Unknown /\ known = Unknown /\ local = {}
      /\ fileFetch = Query("asked", Nothing)
           /\ folderFetch = Query("asked", {})
      /\ tabs = {} /\ active = Absent /\ closedAll = FALSE
      /\ joined = FALSE /\ inbox = <<>>
      /\ op = Idle /\ behind = {} /\ changes = 0 /\ cuts = 0
  BY DEF ExplorerInit
<1>4. TreeTypes
  <2>1. ServerTypes
    BY <1>2, <1>3 DEF ServerTypes
  <2>2. PageTypes
    BY <1>0, <1>3, Queries DEF PageTypes, Asked
  <2>3. RequestTypes
    BY <1>3 DEF RequestTypes
  <2> QED
    BY <2>1, <2>2, <2>3 DEF TreeTypes
<1>5. Made
  BY <1>0, <1>2, <1>3, Queries DEF Made, Onlist, OrElse, Asked
<1>6. Events /\ Asks /\ Opened /\ FoldersFollow
  BY <1>3, Queries DEF Events, Asks, Opened, FoldersFollow, Asked
<1>7. FilesFollow
  BY <1>3, Queries DEF FilesFollow, Asked
<1> QED
  BY <1>4, <1>5, <1>6, <1>7 DEF TreeInv

\* What closes a tab in a step: its user, its file's end, or what was not told.
Kept ==
    \A f \in tabs \ tabs' :
            \/ path[f] = Absent \/ "files" \in behind
            \/ ByUser
            \/ DeleteFolderAnswered /\ f \in Inside(list, op.dir)

LEMMA TreeNextInv ==
    ASSUME TreeInv, [ExplorerNext]_explorerVars
    PROVE  TreeInv' /\ Kept
<1>1. CASE ReadFiles
  <2>1. tabs' = tabs
    BY <1>1 DEF ReadFiles, view
  <2> QED
    BY <1>1, <2>1, ReadFilesInv DEF Kept
<1>2. CASE ReadFolders
  <2>1. tabs' = tabs
    BY <1>2 DEF ReadFolders, view
  <2> QED
    BY <1>2, <2>1, ReadFoldersInv DEF Kept
<1>3. CASE FilesArrive
  BY <1>3, FilesArriveInv DEF Kept
<1>4. CASE FoldersArrive
  <2>1. tabs' = tabs
    BY <1>4 DEF FoldersArrive, view
  <2> QED
    BY <1>4, <2>1, FoldersArriveInv DEF Kept
<1>5. CASE Focus
  <2>1. tabs' = tabs
    BY <1>5 DEF Focus, view
  <2> QED
    BY <1>5, <2>1, FocusInv DEF Kept
<1>6. CASE FileCreated
  BY <1>6, FileCreatedInv DEF Kept
<1>7. CASE FileUpdated
  <2>1. tabs' = tabs
    BY <1>7 DEF FileUpdated, view
  <2> QED
    BY <1>7, <2>1, FileUpdatedInv DEF Kept
<1>8. CASE FileDeleted
  BY <1>8, FileDeletedInv DEF Kept
<1>9. CASE Join
  <2>1. tabs' = tabs
    BY <1>9 DEF Join, view
  <2> QED
    BY <1>9, <2>1, JoinInv DEF Kept
<1>10. CASE Cut
  <2>1. tabs' = tabs
    BY <1>10 DEF Cut, view
  <2> QED
    BY <1>10, <2>1, CutInv DEF Kept
<1>11. CASE Restart
  <2>1. tabs' = tabs
    BY <1>11 DEF Restart, view
  <2> QED
    BY <1>11, <2>1, RestartInv DEF Kept
<1>12. CASE AskCreate \/ AskImport \/ AskRename \/ AskDelete
  <2>1. tabs' = tabs
    BY <1>12 DEF AskCreate, AskImport, AskRename,
       AskDelete, Ask, view
  <2> QED
    BY <1>12, <2>1, AskingInv DEF Kept
<1>13. CASE CloseAll
  BY <1>13, CloseAllInv DEF Kept, ByUser
<1>14. ASSUME NEW f \in File, Open(f) PROVE TreeInv' /\ Kept
  BY <1>14, OpenInv DEF Kept
<1>15. ASSUME NEW f \in File, CloseTab(f) \/ CloseOthers(f)
       PROVE  TreeInv' /\ Kept
  <2>1. ByUser
    BY <1>15 DEF ByUser
  <2> QED
    BY <1>15, <2>1, CloseTabInv, CloseOthersInv DEF Kept
<1>16. CASE Serve
  BY <1>16, ServeInv DEF Kept
<1>17. CASE Fails
  <2>1. tabs' = tabs
    BY <1>17 DEF Fails, view
  <2> QED
    BY <1>17, <2>1, FailsInv DEF Kept
<1>18. CASE CreateAnswered
  BY <1>18, CreateAnsweredInv DEF Kept
<1>19. CASE RenameAnswered
  BY <1>19, RenameAnsweredInv DEF Kept
<1>20. CASE DeleteAnswered
  BY <1>20, DeleteAnsweredInv DEF Kept
<1>21. CASE CreateFolderAnswered
  BY <1>21, CreateFolderAnsweredInv DEF Kept
<1>22. CASE ImportAnswered
  BY <1>22, ImportAnsweredInv DEF Kept
<1>23. CASE RenameFolderAnswered
  BY <1>23, RenameFolderAnsweredInv DEF Kept
<1>24. CASE DeleteFolderAnswered
  BY <1>24, DeleteFolderAnsweredInv DEF Kept
<1>25. CASE FoldersSettled
  BY <1>25, SettledInv DEF Kept
<1>26. CASE Others
  BY <1>26, OthersInv DEF Kept
<1>27. CASE UNCHANGED explorerVars
  <2>1. UNCHANGED <<path, created, folders, list, fileFetch, known, folderFetch,
                    local, tabs, active,
                    closedAll, joined, inbox, op, behind, changes, cuts,
                      Onlist>>
    BY <1>27 DEF explorerVars, server, queries, view,
       socket, bounds, Onlist
  <2> QED
    BY <2>1 DEF Kept, TreeInv, TreeTypes, ServerTypes, PageTypes,
       RequestTypes, Made, Events, Asks, Opened, FilesFollow, FoldersFollow,
       Asked
<1> QED
  BY <1>1, <1>2, <1>3, <1>4, <1>5, <1>6, <1>7, <1>8, <1>9, <1>10, <1>11,
     <1>12, <1>13, <1>14, <1>15, <1>16, <1>17, <1>18, <1>19, <1>20, <1>21,
     <1>22, <1>23, <1>24, <1>25, <1>26, <1>27 DEF ExplorerNext

\* When nothing is on its way there is nothing left to learn.
LEMMA TreeFollowing == TreeInv => ListFollows
<1> SUFFICES ASSUME TreeInv, Quiet
      PROVE /\ "files" \in behind \/ list = path
            /\ "folders" \in behind \/ folders \subseteq ShownFolders
  BY DEF ListFollows
<1>0. TreeTypes /\ fileFetch.state = "none" /\ folderFetch.state = "none"
        /\ Len(inbox) = 0
  BY DEF TreeInv, Quiet
<1>1. ASSUME "files" \notin behind PROVE list = path
  <2>1. \A f \in File : list # Unknown /\ list[f] = path[f]
    BY <1>0, <1>1 DEF TreeInv, FilesFollow
  <2>2. 1 \in File
    BY <1>0, TreeNumbers
  <2>3. list \in Table /\ path \in Table
    BY <1>0, <2>1, <2>2 DEF TreeTypes, ServerTypes, PageTypes, Asked
  <2> QED
    BY <2>1, <2>3 DEF Table
<1>2. ASSUME "folders" \notin behind PROVE folders \subseteq ShownFolders
  BY <1>0, <1>2 DEF TreeInv, FoldersFollow, ShownFolders, virtualFolders,
     OrElse
<1> QED
  BY <1>1, <1>2

\* When nothing is on its way to the page it lists the files that exist under the
\* paths they have, and shows every folder the server knows, except where the
\* code does not tell it (workspace.tsx, the project events and queries).
THEOREM ExplorerFollows == ExplorerSpec => []ListFollows
<1>1. TreeInv /\ [ExplorerNext]_explorerVars => TreeInv'
  BY TreeNextInv
<1> QED
  BY <1>1, TreeInitInv, TreeFollowing, PTL DEF ExplorerSpec

\* No tab of a file that exists is closed but by its user, or with the folder the
\* user deletes, unless the page was not told of a change.
THEOREM ExplorerKeeps == ExplorerSpec => TabsKept
<1>1. TreeInv /\ [ExplorerNext]_explorerVars => TreeInv'
  BY TreeNextInv
<1>2. TreeInv /\ [ExplorerNext]_explorerVars =>
      [\A f \in tabs \ tabs' :
            \/ path[f] = Absent \/ "files" \in behind
            \/ ByUser
            \/ DeleteFolderAnswered
                 /\ f \in Inside(list, op.dir)]_explorerVars
  BY TreeNextInv DEF Kept
<1> QED
  BY <1>1, <1>2, TreeInitInv, PTL DEF ExplorerSpec, TabsKept

LEMMA TreeTyped == TreeInv => ExplorerTypeOK
BY TreeNumbers DEF TreeInv, TreeTypes, ServerTypes, PageTypes, RequestTypes,
   ExplorerTypeOK, Table, File, Asked

\* The variables of ProjectExplorer keep their types.
THEOREM ExplorerTypes == ExplorerSpec => []ExplorerTypeOK
<1>1. TreeInv /\ [ExplorerNext]_explorerVars => TreeInv'
  BY TreeNextInv
<1> QED
  BY <1>1, TreeInitInv, TreeTyped, PTL DEF ExplorerSpec

===============================================================================
