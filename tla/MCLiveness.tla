----------------------------- MODULE MCLiveness -----------------------------
(***************************************************************************)
(* What must eventually happen, part by part: a behaviour is one of the    *)
(* relay, of login attempts, of the reference agent's inbox, of a          *)
(* credential publisher or of the gateway operator; the others rest.       *)
(***************************************************************************)
EXTENDS PublicationRelay, LoginThrottle, ControlInbox, SecretPublisher, GatewayOperator, TLC

VARIABLE part

secretVars == <<credentialVars, publisherVars>>

LivenessInit ==
    /\ part \in {"relay", "login", "inbox", "secrets", "operator"}
    /\ RelayInit /\ ThrottleInit /\ InboxInit /\ PublisherInit /\ OperatorInit

\* Relay workers are interchangeable: the faults meet one of them.
Unlucky == CHOOSE w \in Workers : TRUE
FaultsOfOne == faults' # faults => work'[Unlucky] # work[Unlucky]

LivenessNext ==
    /\ UNCHANGED part
    /\ \/ part = "relay" /\ RelayNext /\ FaultsOfOne /\ UNCHANGED <<throttleVars, inboxVars, secretVars, operatorVars>>
       \/ part = "login" /\ ThrottleNext /\ UNCHANGED <<vars, inboxVars, secretVars, operatorVars>>
       \/ part = "inbox" /\ InboxNext /\ UNCHANGED <<vars, throttleVars, secretVars, operatorVars>>
       \/ part = "secrets" /\ PublisherNext /\ UNCHANGED <<vars, throttleVars, inboxVars, operatorVars>>
       \/ part = "operator" /\ OperatorNext /\ UNCHANGED <<vars, throttleVars, inboxVars, secretVars>>

\* The fairness of each part, for the part that runs.
LivenessSpec ==
    /\ LivenessInit /\ [][LivenessNext]_<<part, vars, throttleVars, inboxVars, secretVars, operatorVars>>
    /\ \A w \in Workers : WF_vars(part = "relay" /\ Step(w))
    /\ \A i \in 1 .. (MaxPublications + MaxSignals) :
          /\ WF_vars(part = "relay" /\ i \in Seqs /\ ~Held(i) /\ LeaseLapses(i))
          /\ WF_vars(part = "relay" /\ i \in Seqs /\ Due(i))
    /\ \A a \in Attempts : SF_throttleVars(part = "login" /\ Progress(a))
    /\ WF_inboxVars(part = "inbox" /\ AgentStep)
    /\ \A p \in Publishers : WF_secretVars(part = "secrets" /\ SyncOnce(p) /\ UNCHANGED credentialVars)
    /\ \A c \in Reconcilers : WF_operatorVars(part = "operator" /\ ReconcileStep(c))
    /\ WF_operatorVars(part = "operator" /\ BeginDeployment)
    /\ \A r \in ModelRoutes : WF_operatorVars(part = "operator" /\ BeginRoute(r))
    /\ WF_operatorVars(part = "operator" /\ (RelayPolicy \/ RelayAggregate \/ \E r \in ModelRoutes : RelayRoute(r)))

\* Nothing is published, then a route with other deployment and policy values.
MCPublications ==
    <<[dep |-> 1, policy |-> 1, routes |-> [r \in ModelRoutes |-> "off"]],
      [dep |-> 2, policy |-> 2, routes |-> [r \in ModelRoutes |-> "on"]]>>
=============================================================================
