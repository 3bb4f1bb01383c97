--------------------------- MODULE MCNetVariants ----------------------------
(***************************************************************************)
(* NetLink with every fault, and without failing writes, after which the    *)
(* server answers twice (NetWrite); where they do not fail, with the        *)
(* history of the device.                                                   *)
(***************************************************************************)
EXTENDS NetImpl

VARIABLE writes

Sound == INSTANCE NetImpl WITH Faults <- Faults \ {"write"}

VariantInit == writes \in {"fail", "succeed"} /\ ImplInit

VariantNext ==
    /\ UNCHANGED writes
    /\ \/ writes = "fail" /\ Next /\ UNCHANGED history
       \/ writes = "succeed" /\ Sound!ImplNext

VariantSpec ==
    VariantInit /\ [][VariantNext]_<<vars, history, writes>> /\ WF_vars(Takes) /\ WF_vars(Serves)

\* Every answer that the client takes (ocd_tcpip.cpp) is the server's answer to
\* the request just sent: where no write failed.
OwnAnswers == writes = "succeed" => AnswersAreOwn

\* A client that takes the link for up is right: where no write failed.
TrulyUp == writes = "succeed" => UpIsUp

Link == INSTANCE OcdLink WITH
    Commands <- {"READ", "WRITE"},
    Answers <- {"data"},
    None <- "nothing",
    up <- open /\ up,
    asked <- IF writes = "succeed" /\ Garbled THEN "garbled" ELSE asked,
    waiting <- writes = "succeed" /\ Calling,
    ran <- ran # <<>>,
    answer <- IF ran # <<>> /\ asked = "READ" THEN "data" ELSE "nothing"

\* Where no write fails, read and write of ocd_tcpip keep what ocd.h's users rely
\* on: one that returns was executed once by the device at the other end, and
\* returns its own answer; one that throws was executed at most once and leaves
\* the link down, wherever the connection was lost or the server's link failed.
ImplementsOcd == Link!Spec
=============================================================================
