----------------------------- MODULE MCDashStream -----------------------------
(* Instances of DashStream for TLC: two manifests of one file, with URLs   *)
(* of their own and the same hash, two without a hash that begin alike but *)
(* are of different files, and a broken one.                               *)
EXTENDS DashStream, TLC

MCManifests == {"a1", "a2", "b", "c", "broken"}

MCTimeline == [m \in MCManifests |->
                 CASE m \in {"a1", "a2"} -> <<<<4, 1>>>>
                   [] m \in {"b", "c"}   -> <<<<4, 0>>>>
                   [] m = "broken"       -> <<<<0, 0>>>>]
MCStart    == [m \in MCManifests |-> IF m = "b" THEN 2 ELSE 0]
MCHash     == [m \in MCManifests |-> IF m \in {"a1", "a2"} THEN "h" ELSE "none"]
MCPrefix   == [m \in MCManifests |-> "mpd"]
MCFile     == [m \in MCManifests |->
                 CASE m \in {"a1", "a2"} -> "a" [] m \in {"b", "broken"} -> "b" [] m = "c" -> "c"]
MCSize     == ("a" :> (0 :> 1 @@ 1 :> 1 @@ 2 :> 1)) @@ ("b" :> (0 :> 1 @@ 2 :> 1))
              @@ ("c" :> (0 :> 1 @@ 1 :> 2))

Header(kind, a, b) == [kind |-> kind, a |-> a, b |-> b]
MCHeaders == [j \in {1, 2} |->
  IF j = 1
  THEN {Header("none", 0, 0), Header("unsupported", 0, 0),
        Header("suffix", 2, 0), Header("suffix", 9, 0), Header("from", 3, 0),
        Header("span", 2, 9)}
  ELSE {Header("span", 1, 2)}]
===============================================================================
