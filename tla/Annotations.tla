----------------------------- MODULE Annotations -----------------------------
(***************************************************************************)
(* Annotations of a file (db_annotations): each is anchored to lines whose *)
(* text was captured, may have to be considered when an issue is closed,   *)
(* and may be carried from one issue to another.  A file is a sequence of  *)
(* lines; checksums are equal when the files are.  Lines here are neither  *)
(* parts of one another nor too long to be captured, and every call is one *)
(* transaction.                                                            *)
(***************************************************************************)
EXTENDS Naturals, Sequences, FiniteSets

CONSTANTS Notes,     \* annotations that may be made
          Concerns,  \* issues
          Lines,     \* contents of a line
          MaxLines   \* bound: lines of the file

ASSUME ConcernsAssumption == IsFiniteSet(Concerns)

VARIABLES text,       \* the file's lines, or those that stand for a missing file
          notes,      \* annotation -> its row and provenance
          considered, \* must_consider links: <<annotation, issue>>
          acked,      \* annotation_closeout_acknowledgements: [note, from, to]
          withdrawn   \* links taken back, by unlinking or deleting the issue

noteVars == <<text, notes, considered, acked, withdrawn>>

Missing == <<>>
Texts == UNION {[1..n -> Lines] : n \in 0..MaxLines}
Unmade == [status |-> "none", critical |-> FALSE, first |-> 0, snippet |-> <<>>, sum |-> <<>>]

NoteInit ==
    /\ text \in Texts
    /\ notes = [a \in Notes |-> Unmade]
    /\ considered = {} /\ acked = {} /\ withdrawn = {}

Made(a) == notes[a].status # "none"
Slice(t, from, to) == SubSeq(t, from, to)

\* annotate_file: snippet and checksum are taken from one reading of the file.
Annotate(a, first, last, critical) ==
    /\ ~Made(a) /\ text # Missing
    /\ first =< last /\ last =< Len(text)
    /\ notes' = [notes EXCEPT ![a] = [status |-> "active", critical |-> critical, first |-> first,
                                      snippet |-> Slice(text, first, last), sum |-> text]]
    /\ UNCHANGED <<text, considered, acked, withdrawn>>

EditFile ==
    /\ \E t \in Texts : t # text /\ text' = t
    /\ UNCHANGED <<notes, considered, acked, withdrawn>>

(* Where an anchor is by now ***********************************************)

Occurs(snippet, at) ==
    /\ at + Len(snippet) - 1 =< Len(text)
    /\ Slice(text, at, at + Len(snippet) - 1) = snippet

\* Mistake: the first place where the snippet is found is taken.
FoundFirst(snippet, at) ==
    /\ Occurs(snippet, at)
    /\ \A before \in 1..(at - 1) : ~Occurs(snippet, before)

\* The search goes on behind each place it finds, so that places that
\* overlap count as one; a single one is taken.
FoundOnce(snippet, at) ==
    /\ Occurs(snippet, at)
    /\ \A other \in 1..Len(text) : Occurs(snippet, other) =>
          at =< other /\ other < at + Len(snippet)

AnchorAt(state, at) == [state |-> state, at |-> at]

\* _compute_annotation_anchor_state
AnchorState(a) ==
    LET note == notes[a]
        once == {at \in 1..Len(text) : FoundOnce(note.snippet, at)}
    IN  IF text = Missing THEN AnchorAt("file_missing", 0)
        ELSE IF text = note.sum THEN AnchorAt("current", note.first)
        ELSE IF Occurs(note.snippet, note.first) THEN AnchorAt("content_changed_anchor_found", note.first)
        ELSE IF once # {} THEN AnchorAt("line_drifted", CHOOSE at \in once : TRUE)
        ELSE AnchorAt("stale", 0)

(* The life of an annotation ***********************************************)

\* update_annotation sets status and weight freely; resolve_annotation,
\* supersede_annotation and promote_annotation set their status.
Update(a, status, critical) ==
    /\ Made(a)
    /\ notes' = [notes EXCEPT ![a].status = status, ![a].critical = critical]
    /\ UNCHANGED <<text, considered, acked, withdrawn>>

\* Mistake: an annotation that is not active gets no link.
LinkIfActive(a, i) ==
    IF notes[a].status = "active" THEN considered \cup {<<a, i>>} ELSE considered

\* _insert_annotation_link: whatever the status, and INSERT OR IGNORE.
WithLink(a, i) == considered \cup {<<a, i>>}

LinkNote(a, i) ==
    /\ Made(a)
    /\ considered' = WithLink(a, i)
    /\ UNCHANGED <<text, notes, acked, withdrawn>>

UnlinkNote(a, i) ==
    /\ <<a, i>> \in considered
    /\ considered' = considered \ {<<a, i>>}
    /\ withdrawn' = withdrawn \cup {<<a, i>>}
    /\ UNCHANGED <<text, notes, acked>>

AckedAt(a, i) == {k \in acked : k.note = a /\ k.from = i}

\* The first acknowledgement of an issue stands (INSERT OR IGNORE).
Acknowledged(a, from, to) ==
    IF AckedAt(a, from) # {} THEN acked ELSE acked \cup {[note |-> a, from |-> from, to |-> to]}

\* carry_forward_annotation
Carry(a, from, to) ==
    /\ <<a, from>> \in considered
    /\ considered' = WithLink(a, to)
    /\ acked' = Acknowledged(a, from, to)
    /\ UNCHANGED <<text, notes, withdrawn>>

\* delete_issue takes the issue's links and acknowledgements with it; what
\* was carried to it stays acknowledged where it came from.
DeleteConcern(i) ==
    /\ \E a \in Notes : <<a, i>> \in considered
    /\ considered' = {l \in considered : l[2] # i}
    /\ acked' = {k \in acked : k.from # i}
    /\ withdrawn' = withdrawn \cup {l \in considered : l[2] = i}
    /\ UNCHANGED <<text, notes>>

NoteNext ==
    \/ EditFile
    \/ \E a \in Notes :
         \/ \E first, last \in 1..MaxLines, critical \in BOOLEAN : Annotate(a, first, last, critical)
         \/ \E status \in {"active", "resolved", "superseded", "promoted"}, critical \in BOOLEAN :
               Update(a, status, critical)
         \/ \E i \in Concerns : LinkNote(a, i) \/ UnlinkNote(a, i)
         \/ \E from, to \in Concerns : Carry(a, from, to)
    \/ \E i \in Concerns : DeleteConcern(i)
NoteSpec == NoteInit /\ [][NoteNext]_noteVars

\* get_annotation_closeout_warnings
WarningsOf(i) == {a \in Notes :
    /\ <<a, i>> \in considered
    /\ notes[a].status = "active" /\ notes[a].critical
    /\ AckedAt(a, i) = {}}

(* Properties **************************************************************)

\* Where an annotation says its lines are, there they are; it claims to be
\* current only on the very file it was made on, and of two separate places
\* with its lines it takes none but the one it was made at.
AnchorHonest == \A a \in {n \in Notes : Made(n)} :
    LET found == AnchorState(a)
        last  == found.at + Len(notes[a].snippet) - 1
    IN  /\ found.at > 0 => SubSeq(text, found.at, last) = notes[a].snippet
        /\ found.state = "current" <=> text = notes[a].sum /\ text # Missing
        /\ found.state = "line_drifted" =>
              ~\E at \in (last + 1)..(Len(text) + 1 - Len(notes[a].snippet)) :
                  SubSeq(text, at, at + Len(notes[a].snippet) - 1) = notes[a].snippet

CarriedFrom(a, S) == {k \in acked : k.note = a /\ k.from \in S}

\* Carrying an annotation on does not lose it: one that is active and critical
\* and to be considered at an issue warns whoever closes that issue, or an
\* issue it was carried to, one after the other, unless somebody withdrew it
\* on the way or carried it back to an issue it had left.  (The issues it was
\* carried to are those that every set with the first and closed under
\* carrying has.)
CarriedNotLost == \A a \in Notes, i \in Concerns :
    (<<a, i>> \in considered /\ notes[a].status = "active" /\ notes[a].critical) =>
        \A reached \in SUBSET Concerns :
            (i \in reached /\ \A k \in CarriedFrom(a, reached) : k.to \in reached) =>
                \/ \E j \in reached : a \in WarningsOf(j) \/ <<a, j>> \in withdrawn
                \/ \E k \in CarriedFrom(a, reached) : k.to = i
                \/ \E k, l \in CarriedFrom(a, reached) : k # l /\ k.to = l.to
=============================================================================
