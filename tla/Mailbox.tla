-------------------------------- MODULE Mailbox --------------------------------
(***************************************************************************)
(* What a chat promises about the results of its background sub-agents:    *)
(* each is put into the chat once, and then given to the model, together   *)
(* with others or alone, once; or it is lost with a courier that fails,    *)
(* and not given any more.                                                 *)
(***************************************************************************)
CONSTANT Result
VARIABLE box  \* what became of each result

Is(r, place) == box[r] = place
Move(S, place) == box' = [r \in Result |-> IF r \in S THEN place ELSE box[r]]

Put(r) == Is(r, "none") /\ Move({r}, "waiting")
Give(S) == (\A r \in S : Is(r, "waiting")) /\ Move(S, "given")
Lose(S) == (\A r \in S : Is(r, "waiting")) /\ Move(S, "lost")

Init == box = [r \in Result |-> "none"]
Next == \/ \E r \in Result : Put(r)
        \/ \E S \in SUBSET Result : Give(S) \/ Lose(S)
Spec == Init /\ [][Next]_box
================================================================================
