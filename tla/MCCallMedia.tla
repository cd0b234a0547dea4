----------------------------- MODULE MCCallMedia -----------------------------
(***************************************************************************)
(* Instance of CallMedia for TLC: of taps on the video button, ends,       *)
(* failed captures and lost connections, a behaviour has two, of any kind. *)
(***************************************************************************)
EXTENDS CallMedia

TwoEvents == toggles + fails + ends + drops <= 2
MediaSpec == Init /\ [][Next /\ TwoEvents']_vars /\ Fairness

=============================================================================
