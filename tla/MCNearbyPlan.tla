---------------------------- MODULE MCNearbyPlan -----------------------------
(* NearbyPlan for two requests: one from a point with a train, two buses    *)
(* and, a little further, a tram; one from a point of that train station.   *)
EXTENDS NearbyPlan, TLC

CONSTANTS c1, c2, h1, h2, t, p, u, b1, b2, orphan, nameT, nameP, nameU, nameB1, nameB2

MCStops == {t, p, u, b1, b2}
MCParent == [s \in MCStops |-> IF s = p THEN t ELSE orphan]
MCNameOf == t :> nameT @@ p :> nameP @@ u :> nameU @@ b1 :> nameB1 @@ b2 :> nameB2
MCModeOf == t :> "metro train" @@ p :> "metro train" @@ u :> "metro tram"
              @@ b1 :> "metro bus" @@ b2 :> "night bus"
MCPlace == h1 :> <<0, 0>> @@ h2 :> <<30, 0>> @@ t :> <<4, 0>> @@ p :> <<5, 0>>
             @@ u :> <<0, 6>> @@ b1 :> <<0, 3>> @@ b2 :> <<2, 2>>
MCMetres == [ab \in (DOMAIN MCPlace) \X (DOMAIN MCPlace) |->
               Apart(ab[1], ab[2], 1) + Apart(ab[1], ab[2], 2)]

MCCallers == {c1, c2}
MCReaders == MCCallers \X MCStops
MCNear == c1 :> [point |-> h1, radius |-> 10, perMode |-> 2]
            @@ c2 :> [point |-> h2, radius |-> 0, perMode |-> 0]

Best(asks, arrive) == [asks |-> asks, arrive |-> arrive]
Outcome(train, bus) ==
  t :> train @@ p :> Best(FALSE, Never) @@ u :> Best(FALSE, 3)
    @@ b1 :> bus @@ b2 :> Best(FALSE, 5)

(* The buses arrive together, or the further one first, or the nearer never. *)
MCTimetables ==
  {Outcome(Best(TRUE, 4), Best(TRUE, 5)), Outcome(Best(TRUE, 6), Best(FALSE, 7)),
   Outcome(Best(FALSE, 4), Best(FALSE, Never))}
=============================================================================
