------------------------------ MODULE MCLoader ------------------------------
(* Two train shards of two rows and a validation shard.  A row may lack    *)
(* its text, have an empty one, one of two lengths that leave room for     *)
(* others in a row, or one too long for any row.                           *)
EXTENDS PretrainLoader

MCCorpora == {<<a, b, <<1>>>> : a \in TupleOf({Null, 0, 1, 2, 4}, 2),
                                b \in TupleOf({Null, 1, 4}, 2)}
=============================================================================
