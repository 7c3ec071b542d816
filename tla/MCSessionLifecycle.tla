------------------------- MODULE MCSessionLifecycle -------------------------
EXTENDS SessionLifecycle
CONSTANTS q1, q2, q3, ann, bob, song1, song2, silence
Ask(k, u) == [kind |-> k, user |-> u]
Three(x, y, z) == [r \in {q1, q2, q3} |-> IF r = q1 THEN x ELSE IF r = q2 THEN y ELSE z]
MCMixes == {
  Three(Ask("create", ann), Ask("create", bob), Ask("join", bob)),
  Three(Ask("join", bob), Ask("join", bob), Ask("close", ann)),
  Three(Ask("export", ann), Ask("skip", bob), Ask("skip", ann)),
  Three(Ask("export", ann), Ask("skip", bob), Ask("generate", ann)),
  Three(Ask("export", ann), Ask("export", ann), Ask("join", bob)),
  Three(Ask("create", bob), Ask("join", ann), Ask("close", bob)),
  Three(Ask("join", bob), Ask("skip", ann), Ask("generate", bob)),
  Three(Ask("socket", ann), Ask("skip", bob), Ask("join", bob)) }
MCQueues == {<<>>, <<song1>>, <<song2, song1>>}
(* Filled exactly; with a track of no duration, and one that does not fit  *)
(* before one that does.                                                   *)
MCOrders == {<<song1, song2>>, <<silence, song2, song2, song1>>}
MCDuration == [t \in {song1, song2, silence} |->
                 CASE t = song1 -> 2 [] t = song2 -> 3 [] t = silence -> 0]
=============================================================================
