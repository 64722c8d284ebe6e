-------------------------------- MODULE MCRfLink -------------------------------
(* Two gateways that know each other and a device, and a third one that listens, *)
(* with right and wrong keys.                                                    *)
EXTENDS RfLink, TLC

CONSTANTS g1, g2, g3, d

MCKey == g1 :> 1 @@ g2 :> 2 @@ g3 :> 3 @@ d :> 4

Entry(nodes, keys) == [known |-> nodes, key |-> keys]

Right == g1 :> Entry({g2, d}, MCKey) @@ g2 :> Entry({g1, d}, MCKey) @@ g3 :> Entry({g1, d}, MCKey)

MCTables == {Right,
             [Right EXCEPT ![g2].key[g1] = 4, ![g1].key[d] = 1, ![g3].key[g1] = 3]}

Packet(dst, enc, cmd) == [dst |-> dst, enc |-> enc, cmd |-> cmd]

MCPackets == {Packet(g2, TRUE, "C_READ_REG"), Packet(d, TRUE, "C_READ_REG"),
              Packet(g2, FALSE, "C_ACK")}

MCDeviceFrames == {Packet(g1, TRUE, "C_READ_REG") @@ ("ctr" :> 1),
                   Packet(g2, FALSE, "C_READ_REG") @@ ("ctr" :> 3)}

MCRequests == g1 :> 3 @@ g2 :> 0 @@ g3 :> 0 @@ d :> 1

MCRestarts == g1 :> 1 @@ g2 :> 0 @@ g3 :> 0
===============================================================================
