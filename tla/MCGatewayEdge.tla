------------------------------- MODULE MCGatewayEdge ------------------------------
EXTENDS GatewayEdge

\* One file that can be used, and files that share an identity or a token.
MCFiles == {<<[id |-> "app", token |-> "t1"], [id |-> "bot", token |-> "t2"]>>,
            <<[id |-> "app", token |-> "t1"], [id |-> "app", token |-> "t2"]>>,
            <<[id |-> "app", token |-> "t1"], [id |-> "bot", token |-> "t1"]>>,
            <<>>}
===================================================================================
