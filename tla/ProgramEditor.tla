---------------------------- MODULE ProgramEditor ----------------------------
(***************************************************************************)
(* The G-code programs of the GUI and the window that edits them.          *)
(*                                                                         *)
(* A program is a list of blocks, a block a letter word (G1, M3) and a map *)
(* of argument words (X, F); every word is shown by a label of its own.    *)
(* One label at a time is selected: what the user types then replaces that *)
(* word, otherwise it becomes a new block.  A mode button shows another    *)
(* program.                                                                *)
(*                                                                         *)
(* The objects are Qt's: a scroll area deletes the widget it showed when   *)
(* it is given another one, and a layout that is given to a temporary      *)
(* widget takes the labels in it along.  What matters here is which of     *)
(* them are still there when somebody holds a pointer to them.             *)
(*                                                                         *)
(* gcode/gBlock.cpp, gcode/gProgram.cpp, gui/pincEditWindow.cpp,           *)
(* gui/pincLabel.cpp and the mode handler in pinc.cpp.  Not modelled: the  *)
(* numbers after the letters, colours, stretch factors.                    *)
(***************************************************************************)
EXTENDS Naturals, Sequences, FiniteSets, SequencesExt, FiniteSetsExt

CONSTANTS
  Letters,     (* letters of the first word of a block, as G, M, L         *)
  Arguments,   (* letters of arguments, as X, F                            *)
  MaxBlocks,   (* bound: blocks of one program, and one more made in all   *)
  EditorCalm   (* assumptions about the user:                              *)
               (* "once"    no program is shown again after another one    *)
               (* "none"    no label is selected when a program is cleared *)
               (*           or another one is shown                        *)
               (* "words"   Delete is used for arguments only, and a text  *)
               (*           with a letter word only for a new block or the *)
               (*           word it has already                            *)

ASSUME EditorAssumption ==
  /\ MaxBlocks \in Nat /\ Letters \cap Arguments = {}
  /\ EditorCalm \subseteq {"once", "none", "words"}

Programs == {"window", "cur", "mdi", "auto"}
Modes    == {"auto", "mdi", "other"}
None     == "none"
Nobody   == <<>>       \* no label

\* What the two regular expressions find in a text: a letter word, and the
\* arguments after it, or arguments alone.
Texts == [ltr : Letters \cup {None}, args : SUBSET Arguments]

VARIABLES
  blocks,    \* program -> its blocks: [ltr, args, labels, id]
  alive,     \* the programs that Qt has not deleted
  shown,     \* m_program of the edit window and the widget of its scroll area
  current,   \* curProgram of pinc.cpp
  toRun,     \* m_program of the processor
  sel,       \* labels whose m_selected is set, as <<block id, letter>>
  curLabel,  \* m_cur_label of the edit window
  made,      \* blocks made so far: the next id
  \* history
  seen       \* the programs shown so far

editorVars == <<blocks, alive, shown, current, toRun, sel, curLabel, made, seen>>

EditorInit ==
  /\ blocks = [p \in Programs |-> <<>>] /\ alive = Programs
  /\ shown = "window" /\ current = "cur" /\ toRun = None
  /\ sel = {} /\ curLabel = Nobody /\ made = 0 /\ seen = {"window"}

Mine    == blocks[shown]
Labels(p) == UNION {{<<blocks[p][i].id, l>> : l \in blocks[p][i].labels} : i \in DOMAIN blocks[p]}
Where(label) == CHOOSE i \in DOMAIN Mine : Mine[i].id = label[1]

-----------------------------------------------------------------------------
(* gBlock *)

\* setArguments: a letter word gives the block its letter (and a label, unless
\* it has one for it), each argument its value (and a label).
Changed(b, t) ==
  [b EXCEPT !.ltr    = IF t.ltr = None THEN @ ELSE t.ltr,
            !.args   = @ \cup t.args,
            !.labels = @ \cup t.args \cup ({t.ltr} \ {None})]

NewBlock(t) == Changed([ltr |-> None, args |-> {}, labels |-> {}, id |-> made], t)

\* clrArgument: the letter word is no argument, it stays.
Cleared(b, l) == IF l \in b.args
                 THEN [b EXCEPT !.args = @ \ {l}, !.labels = @ \ {l}] ELSE b

-----------------------------------------------------------------------------
(* pincEditWindow *)

\* setCurLabel, called with the labels that are selected by then.
Unselected(now) == now \ {curLabel}
SetCurLabel(l, now) == curLabel' = l /\ sel' = Unselected(now)

\* addLine; the Return key with no label selected.
AddLine == \E t \in Texts :
  /\ curLabel = Nobody /\ shown \in alive
  /\ Len(Mine) < MaxBlocks /\ made <= MaxBlocks
  /\ "words" \in EditorCalm => t.ltr # None
  /\ blocks' = [blocks EXCEPT ![shown] = Append(@, NewBlock(t))]
  /\ made' = made + 1
  /\ SetCurLabel(Nobody, sel)
  /\ UNCHANGED <<alive, shown, current, toRun, seen>>

\* Whether the pointer the window holds leads to a label that is there.
Valid == shown \in alive /\ curLabel \in Labels(shown)

\* The Return key: the label emits textChange, gBlock::setArguments.
ChangeWord == \E t \in Texts :
  /\ curLabel # Nobody /\ Valid
  /\ "words" \in EditorCalm => t.ltr \in {None, Mine[Where(curLabel)].ltr}
  /\ blocks' = [blocks EXCEPT ![shown][Where(curLabel)] = Changed(@, t)]
  /\ SetCurLabel(Nobody, sel)
  /\ UNCHANGED <<alive, shown, current, toRun, made, seen>>

\* The Delete key: the label emits remove, gBlock::clrArgument.
DeleteWord ==
  /\ curLabel # Nobody /\ Valid
  /\ LET i == Where(curLabel) IN
     /\ "words" \in EditorCalm => curLabel[2] \in Mine[i].args
     /\ blocks' = [blocks EXCEPT ![shown][i] = Cleared(@, curLabel[2])]
     /\ sel' = IF curLabel[2] \in Mine[i].args THEN sel \ {curLabel} ELSE sel
  /\ curLabel' = Nobody
  /\ UNCHANGED <<alive, shown, current, toRun, made, seen>>

\* A click on a label: mouseReleaseEvent.
Click == shown \in alive /\ \E l \in Labels(shown) :
  /\ IF l \in sel THEN SetCurLabel(Nobody, sel \ {l}) ELSE SetCurLabel(l, sel \cup {l})
  /\ UNCHANGED <<blocks, alive, shown, current, toRun, made, seen>>

\* gProgram::clear: the blocks go with their layout; the window is not told.
ClearProgram ==
  /\ shown \in alive /\ Mine # <<>>
  /\ "none" \in EditorCalm => curLabel = Nobody
  /\ blocks' = [blocks EXCEPT ![shown] = <<>>]
  /\ sel' = sel \ Labels(shown)
  /\ UNCHANGED <<alive, shown, current, toRun, curLabel, made, seen>>

\* The mode buttons: the handler in pinc.cpp with pincEditWindow::setProgram,
\* where QScrollArea::setWidget deletes the program it showed.
ToShow(m) == CASE m = "auto" -> "auto" [] m = "mdi" -> "mdi" [] OTHER -> current
KeepsFirst(p) == IF toRun = None THEN p ELSE toRun              \* mutant
ForProcessor(p) == p
Mode == \E m \in Modes : LET p == ToShow(m) IN
  /\ "none" \in EditorCalm => p = shown \/ curLabel = Nobody
  /\ "once" \in EditorCalm => p = shown \/ p \notin seen
  /\ current' = p /\ shown' = p /\ toRun' = ForProcessor(p) /\ seen' = seen \cup {p}
  /\ alive' = IF p = shown THEN alive ELSE alive \ {shown}
  /\ sel' = IF p = shown THEN sel ELSE sel \ Labels(shown)
  /\ UNCHANGED <<blocks, curLabel, made>>

EditorNext == AddLine \/ ChangeWord \/ DeleteWord \/ Click \/ ClearProgram \/ Mode

EditorSpec == EditorInit /\ [][EditorNext]_editorVars

-----------------------------------------------------------------------------
(* Properties. *)

Block == [ltr : Letters \cup {None}, args : SUBSET Arguments,
          labels : SUBSET (Letters \cup Arguments), id : Nat]

EditorTypeOK ==
  /\ blocks \in [Programs -> Seq(Block)]
  /\ alive \subseteq Programs /\ shown \in Programs /\ current \in Programs
  /\ toRun \in Programs \cup {None} /\ made \in Nat

\* Nobody is left with a pointer to an object Qt has deleted: the window's
\* program and the processor's are there, and so is the label that the next
\* Return or Delete key goes to.
NoDangling ==
  /\ shown \in alive
  /\ toRun # None => toRun \in alive
  /\ curLabel # Nobody => curLabel \in Labels(shown)

\* The label that is shown as selected is the one the keys go to, and no other.
OneSelected == sel = IF curLabel = Nobody THEN {} ELSE {curLabel}

\* Run carries out the program the user looks at, once a mode was chosen.
RunsWhatIsShown == toRun # None => toRun = shown

\* A block shows exactly the words it consists of: what the machine will do is
\* what can be read on the screen.
ShowsItsWords == \A p \in alive : \A i \in DOMAIN blocks[p] : LET b == blocks[p][i] IN
  b.labels = b.args \cup ({b.ltr} \ {None})

\* What is shown is what runs, and no pointer dangles.
EditorCorrect == EditorTypeOK /\ NoDangling /\ OneSelected /\ RunsWhatIsShown /\ ShowsItsWords

=============================================================================
