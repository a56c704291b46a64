---------------------------- MODULE MCBtpWorker ----------------------------
(* Two LT threads.  One command of each style: commands that agree in     *)
(* service, style and check behave alike.                                  *)
EXTENDS BtpWorker

BTP == INSTANCE BtpCommands

CONSTANTS a, b

OneOf(svc, style, check) ==
    CHOOSE k \in BTP!BtpCommands : k.svc = svc /\ k.style = style /\ k.check = check

MCCommand == {OneOf("GAP", "pair", "svc"), OneOf("GAP", "locked", "op"),
              OneOf("GATT", "split", "op"), OneOf("PACS", "unread", "none")}
============================================================================
