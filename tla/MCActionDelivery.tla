-------------------------- MODULE MCActionDelivery --------------------------
\* Two answers around a publish, an answer after an HTTP action, a request
\* whose response is published, a core publish after a JetStream one.
EXTENDS ActionDelivery

MCPlans == { <<>>, <<"respond", "jetstream", "respond">>, <<"http", "respond">>,
             <<"httpPublish">>, <<"jetstream", "core">> }
=============================================================================
