------------------------------- MODULE NdmConfig -------------------------------
(***************************************************************************)
(* The exclude list of the path filter of the node disk manager, as the    *)
(* integration tests edit it.  The list is one text in a ConfigMap: paths  *)
(* joined by commas.  An edit reads the ConfigMap, changes the text, sends *)
(* the difference as a patch and restarts the pod that reads it; nothing   *)
(* locks the ConfigMap in between.                                         *)
(*                                                                         *)
(* A text is a sequence of tokens; a path is a sequence of tokens too, as  *)
(* the path of one device may be a part of the path of another.            *)
(***************************************************************************)
EXTENDS Naturals, Sequences, SequencesExt

CONSTANTS
  Writers,     \* those who edit the list
  Paths,       \* the paths of devices
  Texts,       \* the texts the list may have at the start
  NoFilter,    \* a configuration without a path filter
  MaxEdits     \* how many edits there are

VARIABLES
  stored,      \* the text in the ConfigMap
  running,     \* the text the node disk manager has read
  edit,        \* the edit of each writer
  wanted,      \* history: the paths that should be in the list
  overlapped,  \* history: an edit began during another one
  cut,         \* history: a path was removed although it is part of another
  failed,      \* history: the pod was not restarted after a patch
  edits        \* the number of edits so far

ndmVars == <<stored, running, edit, wanted, overlapped, cut, failed, edits>>

\* What the paths of a list are joined by.
Comma == ","

\* strings.ReplaceAll(text, part, ""): what is left of text from each place on.
RemoveAll(text, part) ==
  LET rest[i \in 1 .. Len(text) + 1] ==
        IF i + Len(part) > Len(text) + 1 THEN SubSeq(text, i, Len(text))
        ELSE IF SubSeq(text, i, i + Len(part) - 1) = part THEN rest[i + Len(part)]
        ELSE <<text[i]>> \o rest[i + 1]
  IN rest[1]

AppendToPathFilter(text, path) ==
  text \o (IF text = <<>> THEN <<>> ELSE <<Comma>>) \o path

\* Mutant of RemoveFromPathFilter: only a path that follows a comma is removed.
RemoveAfterComma(text, path) == RemoveAll(text, <<Comma>> \o path)

RemoveFromPathFilter(text, path) == RemoveAll(RemoveAll(text, <<Comma>> \o path), path)

\* The paths of a text, as the node disk manager reads it.
Entries(text) ==
  {SubSeq(text, r[1], r[2]) :
     r \in {s \in (1 .. Len(text)) \X (1 .. Len(text)) :
              /\ s[1] <= s[2] /\ \A i \in s[1] .. s[2] : text[i] # Comma
              /\ s[1] = 1 \/ text[s[1] - 1] = Comma
              /\ s[2] = Len(text) \/ text[s[2] + 1] = Comma}}

\* The path of a device has no comma.
ASSUME NdmAssumption ==
  /\ NoFilter \notin Texts /\ MaxEdits \in Nat
  /\ Texts \subseteq Seq(STRING) /\ Paths \subseteq Seq(STRING)
  /\ \A p \in Paths : p # <<>> /\ \A i \in DOMAIN p : p[i] # Comma

Edit(step, option, path, before, after) ==
  [pc |-> step, option |-> option, path |-> path, old |-> before, new |-> after]
Idle == Edit("idle", "none", <<>>, <<>>, <<>>)

NdmInit ==
  /\ stored \in Texts \cup {NoFilter} /\ running = stored
  /\ edit = [w \in Writers |-> Idle]
  /\ wanted = IF stored = NoFilter THEN {} ELSE Entries(stored)
  /\ overlapped = FALSE /\ cut = FALSE /\ failed = FALSE
  /\ edits = 0

\* The ConfigMap is read and its text changed; without a path filter, an error.
PathFilterExclude(w, option, path) ==
  /\ edit[w].pc = "idle" /\ edits < MaxEdits /\ edits' = edits + 1
  /\ IF stored = NoFilter THEN UNCHANGED <<edit, overlapped, cut>>
     ELSE /\ edit' = [edit EXCEPT ![w] =
               Edit("patch", option, path, stored,
                    IF option = "Append" THEN AppendToPathFilter(stored, path)
                    ELSE RemoveFromPathFilter(stored, path))]
          /\ overlapped' = (overlapped \/ \E o \in Writers : edit[o].pc = "patch")
          /\ cut' = (cut \/ (option = "Remove" /\
                             \E e \in Entries(stored) : e # path /\ path \in SubSeqs(e)))
  /\ UNCHANGED <<stored, running, wanted, failed>>

\* The merge patch carries no resource version; it is empty when the text is the same.
Patch(w) ==
  /\ edit[w].pc = "patch"
  /\ stored' = IF edit[w].new = edit[w].old THEN stored ELSE edit[w].new
  /\ wanted' = IF edit[w].option = "Append" THEN wanted \cup {edit[w].path}
               ELSE wanted \ {edit[w].path}
  /\ edit' = [edit EXCEPT ![w] = Edit("restart", edit[w].option, edit[w].path, edit[w].old,
                                     edit[w].new)]
  /\ UNCHANGED <<running, overlapped, cut, failed, edits>>

PatchFails(w) ==
  /\ edit[w].pc = "patch"
  /\ edit' = [edit EXCEPT ![w] = Idle]
  /\ UNCHANGED <<stored, running, wanted, overlapped, cut, failed, edits>>

\* Mutant of Restart: the restart is left to another edit that is under way.
RestartAlone(w) ==
  /\ edit[w].pc = "restart"
  /\ running' = IF \A o \in Writers \ {w} : edit[o].pc = "idle" THEN stored ELSE running
  /\ edit' = [edit EXCEPT ![w] = Idle]
  /\ UNCHANGED <<stored, wanted, overlapped, cut, failed, edits>>

\* The pod is deleted; the one that replaces it reads the ConfigMap.
Restart(w) ==
  /\ edit[w].pc = "restart"
  /\ running' = stored
  /\ edit' = [edit EXCEPT ![w] = Idle]
  /\ UNCHANGED <<stored, wanted, overlapped, cut, failed, edits>>

RestartFails(w) ==
  /\ edit[w].pc = "restart"
  /\ edit' = [edit EXCEPT ![w] = Idle]
  /\ failed' = TRUE
  /\ UNCHANGED <<stored, running, wanted, overlapped, cut, edits>>

NdmNext ==
  \E w \in Writers :
    \/ \E option \in {"Append", "Remove"}, path \in Paths : PathFilterExclude(w, option, path)
    \/ Patch(w) \/ PatchFails(w) \/ Restart(w) \/ RestartFails(w)

NdmSpec == NdmInit /\ [][NdmNext]_ndmVars

-------------------------------------------------------------------------------
\* The list holds the paths that were added and not removed, in whatever order
\* they come and go, the first and the last of the text included; a path is
\* lost, or left behind, only when edits overlapped or one path is part of
\* another.
ListIsWhatIsWanted ==
  stored # NoFilter /\ ~overlapped /\ ~cut => Entries(stored) = wanted

\* Overlapping edits may lose each other's paths, but once they have ended the
\* node disk manager runs with the list that is stored.
StoredIsInForce ==
  (\A w \in Writers : edit[w].pc = "idle") /\ ~failed => running = stored
=================================================================================
