---------------------------- MODULE MCTrackLibrary ----------------------------
(***************************************************************************)
(* TrackLibrary for TLC: two providers, and one album with one track, or   *)
(* with two where the requests are about the album.                        *)
(***************************************************************************)
EXTENDS TrackLibrary, TLC

MCAlbumOf == [t \in Tracks |-> CHOOSE a \in Albums : TRUE]
MCArtistOf == [a \in Albums |-> CHOOSE r \in Artists : TRUE]

(* The requests about the track; those about its album, and searches.      *)
TrackRequests == (TrackOps \X Tracks) \cup ({"getAlbum"} \X Albums)
AlbumRequests == ({"star", "unstar"} \X Albums) \cup {<<"search", NoItem>>}
                 \cup ({"unstar"} \X Artists)

(* The track, its album and its artist are starred and unstarred. *)
StarRequests == {"star", "unstar"} \X Items

(* The track is starred and unstarred, and nothing else asks for it. *)
TrackStars == {"star", "unstar"} \X Tracks

Interchangeable == Permutations(Mirrors) \cup Permutations(Jobs) \cup Permutations(Tracks)
===============================================================================
