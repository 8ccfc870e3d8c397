------------------------------- MODULE Screens -------------------------------
(***************************************************************************)
(* What a screen of the web client is made of: what it shows of the        *)
(* server, kept by the query client under keys, and the presses it offers. *)
(* A key stands without the ids and the page in it, for that of the row a  *)
(* press is about.                                                         *)
(***************************************************************************)
EXTENDS Sequences

LOCAL INSTANCE SequencesExt

Kept(key, facts) == [key |-> key, facts |-> facts]

\* A press that calls a write and, once that is answered, renews what is kept
\* under the keys that start so.
Press(write, renews) ==
  [write |-> write, renews |-> renews,
   puts |-> {},         \* the answer itself is kept under these keys
   marks |-> {},        \* these are asked for anew at the next look only
   offered |-> {},      \* the rows it is offered on
   from |-> <<>>]       \* the key these rows are kept under

On(p, k, rows) == [p EXCEPT !.offered = rows, !.from = k.key]
Puts(p, k) == [p EXCEPT !.puts = {k.key}]
Marks(p, keys) == [p EXCEPT !.marks = keys]

Screen(shows, presses) == [shows |-> shows, presses |-> presses]

\* One screen made of parts.
Together(parts) ==
  Screen(UNION {s.shows : s \in parts}, UNION {s.presses : s \in parts})

\* invalidateQueries goes by the start of the key.
Under(keys, k) == \E key \in keys : IsPrefix(key, k.key)
=============================================================================
