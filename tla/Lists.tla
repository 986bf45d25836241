-------------------------------- MODULE Lists --------------------------------
(***************************************************************************)
(* The Vecs of a snapshot (crates/madari-core/src/lib.rs): entries leave    *)
(* with Vec::retain and come back with push, and keep their order.          *)
(***************************************************************************)
EXTENDS Naturals, Sequences

Elements(seq) == {seq[i] : i \in DOMAIN seq}

\* Vec::retain: what is not in `out`, in its order.
Without(seq, out) ==
  LET kept[n \in 0 .. Len(seq)] ==
        IF n = 0 THEN << >>
        ELSE IF seq[n] \in out THEN kept[n - 1] ELSE Append(kept[n - 1], seq[n])
  IN  kept[Len(seq)]

=============================================================================
