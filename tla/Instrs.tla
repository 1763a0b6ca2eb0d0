------------------------------- MODULE Instrs -------------------------------
(***************************************************************************)
(* Instructions and their users, lib/ir/instr.hpp, and replace_instr_uses, *)
(* lib/pass/common.hpp.  A heap maps the addresses of instructions to      *)
(* what is there; `value` is what an instruction holds beside operands.    *)
(***************************************************************************)
EXTENDS Naturals, SequencesExt

Instr(type, operands, value) ==
  [type |-> type, operands |-> operands, value |-> value, users |-> <<>>]

\* The heap h after i->add_user(user) for each i of the sequence s.
AddUser(h, user, s) ==
  LET times(i) == Cardinality({k \in DOMAIN s : s[k] = i})
  IN  [i \in DOMAIN h |-> [h[i] EXCEPT !.users = @ \o [k \in 1 .. times(i) |-> user]]]

\* replace_operand
Replaced(operands, from, to) ==
  [k \in DOMAIN operands |-> IF operands[k] = from THEN to ELSE operands[k]]

\* replace_instr_uses: all that is registered as a user of `from` turns to `to`,
\* which gets them for its users.  The users of `from`, and what else they are
\* registered for, stay as they were.

ReplaceUses_FirstUser(h, from, to) ==  \* mutant
  LET users == SubSeq(h[from].users, 1, IF h[from].users = <<>> THEN 0 ELSE 1)
  IN  [i \in DOMAIN h |->
         [h[i] EXCEPT !.operands = IF i \in ToSet(users) THEN Replaced(@, from, to) ELSE @,
                      !.users = IF i = to THEN @ \o users ELSE @]]

ReplaceUses_NotRegistered(h, from, to) ==  \* mutant
  LET users == h[from].users
  IN  [i \in DOMAIN h |->
         [h[i] EXCEPT !.operands = IF i \in ToSet(users) THEN Replaced(@, from, to) ELSE @]]

ReplaceUses(h, from, to) ==
  LET users == h[from].users
  IN  [i \in DOMAIN h |->
         [h[i] EXCEPT !.operands = IF i \in ToSet(users) THEN Replaced(@, from, to) ELSE @,
                      !.users = IF i = to THEN @ \o users ELSE @]]

=============================================================================
