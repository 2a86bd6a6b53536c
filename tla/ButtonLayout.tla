---------------------------- MODULE ButtonLayout ----------------------------
(***************************************************************************)
(* The buttons of one remote (models.RemoteButton), and how                *)
(* button_config_save_view rewrites them one statement at a time under the *)
(* uniqueness constraints of the database.                                 *)
(***************************************************************************)
EXTENDS Naturals

CONSTANTS
  Ids,           \* primary keys of buttons
  Keys,          \* what a button may have as its key (its action)
  TemporaryKey,  \* TemporaryKey[b]: f"temporary-{b}", a key like any other
  Gap            \* 1000

ASSUME LayoutAssumption ==
  /\ TemporaryKey \in [Ids -> Keys]
  /\ \A a, b \in Ids : a # b => TemporaryKey[a] # TemporaryKey[b]
  /\ Gap \in Nat \ {0}

Slot == [key : Keys, row : Nat, column : Nat]

(* A layout gives some buttons their slots. *)
IsLayout(l) == \E ids \in SUBSET Ids : l \in [ids -> Slot]

Clash(s, t) == s.key = t.key \/ (s.row = t.row /\ s.column = t.column)

(* uniq_remote_button_key and uniq_remote_button_position *)
Unique(l) == \A a, b \in DOMAIN l : a # b => ~Clash(l[a], l[b])

(* The rows of the table halfway: the keys of some are temporary, the rows   *)
(* of some are shifted, and some hold what was submitted.                    *)
Halfway(old, new, keyed, shifted, shift, written) ==
  [b \in DOMAIN old \cup written |->
     IF b \in written THEN new[b]
     ELSE [key    |-> IF b \in keyed THEN TemporaryKey[b] ELSE old[b].key,
           row    |-> IF b \in shifted THEN old[b].row + shift ELSE old[b].row,
           column |-> old[b].column]]

(* max_row + 1000, where the buttons hold their submitted rows by then. *)
Shifts(old, new) ==
  LET row(b) == IF b \in DOMAIN new THEN new[b].row ELSE old[b].row
      max == {m \in {0} \cup {row(b) : b \in DOMAIN old} : \A b \in DOMAIN old : row(b) <= m}
  IN  {m + Gap : m \in max}

(* Mutant of NeverClashes: actions are rewritten without temporary keys. *)
NeverClashesInPlace(old, new, shift) ==
  /\ \A some \in SUBSET DOMAIN old : Unique(Halfway(old, new, {}, some, shift, {}))
  /\ \A some \in SUBSET DOMAIN new : Unique(Halfway(old, new, {}, DOMAIN old, shift, some))

(* No statement meets a row with its key or position, in whatever order the  *)
(* rows come: the keys, one by one; the rows, in one statement that looks at *)
(* one row after the other; the buttons, one by one.                         *)
NeverClashes(old, new, shift) ==
  /\ \A some \in SUBSET DOMAIN old : Unique(Halfway(old, new, some, {}, shift, {}))
  /\ \A some \in SUBSET DOMAIN old : Unique(Halfway(old, new, DOMAIN old, some, shift, {}))
  /\ \A some \in SUBSET DOMAIN new : Unique(Halfway(old, new, DOMAIN old, DOMAIN old, shift, some))

(* The table when every statement has been executed. *)
Rewritten(old, new, shift) == Halfway(old, new, DOMAIN old, DOMAIN old, shift, DOMAIN new)

(* Keys and rows nobody would think of as temporary. *)
Plain(l) ==
  \A b \in DOMAIN l : l[b].row < Gap /\ \A a \in Ids : l[b].key # TemporaryKey[a]
=============================================================================
