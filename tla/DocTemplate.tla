----------------------------- MODULE DocTemplate -----------------------------
(***************************************************************************)
(* The smart mapping of app/services/docx_service.py: where a company's    *)
(* own payslip document has room for a value, what the wizard shows there, *)
(* and what the document looks like once the chosen tokens are injected.   *)
(*                                                                         *)
(* A document is the sequence of its rows, a paragraph outside the tables  *)
(* being a row of one cell.  Nested tables and merged cells are left out,  *)
(* and so is the cap of 300 slots.                                         *)
(***************************************************************************)
EXTENDS Naturals, Sequences, SequencesExt, FiniteSetsExt

CONSTANTS Labels, Tokens, NoName

(***************************************************************************)
(* What a cell or a paragraph looks like: blank or filler; an amount;      *)
(* plain words; "[ words ]"; "words: value"; "{{ token }}".  Its name is   *)
(* the normalised label, and holds is the token behind the colon.  NoName: *)
(* no label, or one that normalises to nothing (in another script, say).   *)
(***************************************************************************)
Forms == {"blank", "amount", "words", "bracket", "field", "token"}

Cell == [form: Forms, name: Labels \cup Tokens \cup {NoName}, holds: Tokens \cup {NoName}]

NoDocument == <<>>

Places(doc) == UNION {{<<r, c>> : c \in DOMAIN doc[r]} : r \in DOMAIN doc}

At(doc, place) == doc[place[1]][place[2]]

LabelLike(cell) == cell.form \in {"words", "bracket", "token"}
HasColon(cell)  == cell.form = "field"

\* The numbers of a set, from the least.
InOrder(S) ==
  [k \in 1..Cardinality(S) |-> CHOOSE x \in S : Cardinality({y \in S : y < x}) = k - 1]

-----------------------------------------------------------------------------
Slot(label, r, c) == [label |-> label, place |-> <<r, c>>]

\* A row of labels right above a row of blanks.
Stacked(doc, r) ==
  /\ r + 1 \in DOMAIN doc
  /\ Len(doc[r]) >= 2 /\ Len(doc[r + 1]) = Len(doc[r])
  /\ \A c \in DOMAIN doc[r] : LabelLike(doc[r][c]) /\ doc[r + 1][c].form = "blank"

\* Whether columns c and c + 1 of a row are a label and its value.
Paired(row, c) ==
  /\ c % 2 = 1 /\ c + 1 <= Len(row)
  /\ LabelLike(row[c]) /\ ~HasColon(row[c + 1])

\* _process_table: the slots of row r.
TableSlots(doc, r) ==
  LET row == doc[r]
  IN  IF r > 1 /\ Stacked(doc, r - 1) THEN <<>>
      ELSE IF Stacked(doc, r) THEN [c \in DOMAIN row |-> Slot(row[c].name, r + 1, c)]
      ELSE LET heads == InOrder({c \in DOMAIN row : Paired(row, c)})
           IN  [k \in DOMAIN heads |-> Slot(row[heads[k]].name, r, heads[k] + 1)]

\* _paragraph_slot: the placeholders and the "Label: value" lines of row r.
ParagraphSlots(doc, r) ==
  LET cols == InOrder({c \in DOMAIN doc[r] : doc[r][c].form \in {"bracket", "field"}})
  IN  [k \in DOMAIN cols |-> Slot(doc[r][cols[k]].name, r, cols[k])]

TablePass(doc)     == FlattenSeq([r \in DOMAIN doc |-> TableSlots(doc, r)])
ParagraphPass(doc) == FlattenSeq([r \in DOMAIN doc |-> ParagraphSlots(doc, r)])

\* scan_docx_fields.  (The index of a slot, from 0 in the code, is its position.)
Slots(doc) == TablePass(doc) \o ParagraphPass(doc)

-----------------------------------------------------------------------------
\* What apply_fn leaves in a cell: the label of a "Label: value" stays.
Filled(cell, token) ==
  IF cell.form = "field" THEN [cell EXCEPT !.holds = token]
  ELSE [form |-> "token", name |-> token, holds |-> NoName]

\* The document once the slots that chosen maps are filled in.
Inject(doc, slots, chosen) ==
  LET TokenAt(place) == {chosen[i] : i \in {j \in DOMAIN slots \cap DOMAIN chosen :
                                              slots[j].place = place}}
  IN  [r \in DOMAIN doc |-> [c \in DOMAIN doc[r] |->
         IF TokenAt(<<r, c>>) = {} THEN doc[r][c]
         ELSE Filled(doc[r][c], CHOOSE t \in TokenAt(<<r, c>>) : TRUE)]]

\* Mutant of ApplyMapping: the second pass numbers its slots from the start again.
ApplyMappingRestarts(doc, chosen) ==
  LET half == Inject(doc, TablePass(doc), chosen)
  IN  Inject(half, ParagraphPass(half), chosen)

(***************************************************************************)
(* apply_field_mapping: the slots are enumerated while they are filled, so *)
(* that the second pass goes over a document the first one has changed.    *)
(***************************************************************************)
ApplyMapping(doc, chosen) ==
  LET first == TablePass(doc)
      half  == Inject(doc, first, chosen)
      rest  == {i \in DOMAIN chosen : i > Len(first)}
  IN  Inject(half, ParagraphPass(half),
             [k \in {i - Len(first) : i \in rest} |-> chosen[k + Len(first)]])

\* The mapping as it is saved: each choice with the label of its slot.
Saved(doc, chosen) ==
  [i \in DOMAIN chosen |-> [token |-> chosen[i], label |-> Slots(doc)[i].label]]

\* Mutant of Shown: every slot takes the first choice saved for its label.
ShownFirst(doc, saved) ==
  [i \in DOMAIN Slots(doc) |->
     LET items == {k \in DOMAIN saved : saved[k].label = Slots(doc)[i].label}
     IN  IF Slots(doc)[i].label # NoName /\ items # {} THEN saved[Min(items)].token
         ELSE NoName]

(***************************************************************************)
(* _prefill_from_saved: what the re-opened wizard shows in each slot: the  *)
(* n-th choice saved for a label in the n-th slot with that label.  A slot *)
(* whose label normalises to nothing gets none of them, and where all do   *)
(* the saved pair itself, which is no token: mappings without labels, of   *)
(* an older format, are put back by index.  (No handler saves these any    *)
(* more: they are left out.)  Elsewhere the wizard shows a suggestion,     *)
(* which is left out.                                                      *)
(***************************************************************************)
Shown(doc, saved) ==
  LET slots == Slots(doc)
  IN  [i \in DOMAIN slots |->
         LET nth   == Cardinality({j \in 1..i : slots[j].label = slots[i].label})
             items == InOrder({k \in DOMAIN saved : saved[k].label = slots[i].label})
         IN  IF slots[i].label # NoName /\ nth <= Len(items)
             THEN saved[items[nth]].token ELSE NoName]
=============================================================================
