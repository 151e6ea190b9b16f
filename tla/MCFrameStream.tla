---------------------------- MODULE MCFrameStream ---------------------------
(***************************************************************************)
(* Bytes of two values, so that a prefix counts to fifteen.  Bodies that   *)
(* look like frames, like the start of a frame, and one too long; contents *)
(* that decode to a frame and that raise each kind of exception.           *)
(***************************************************************************)
EXTENDS FrameStream, TLC

Short == <<1>>
LikeFrame == Encode(Short)
LikePrefix == <<0, 0, 1>>
TooLong == [i \in 1 .. 16 |-> 1]

MCContent ==
    Short :> "request" @@ LikeFrame :> "request" @@ LikePrefix :> "response"
        @@ <<1, 1>> :> "no object" @@ <<0>> :> "null messages" @@ TooLong :> "request"

MCContentBodies == DOMAIN MCContent

=============================================================================
