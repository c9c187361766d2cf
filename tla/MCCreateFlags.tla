--------------------------- MODULE MCCreateFlags ---------------------------
(* Two drivers, one of which declares a create flag of its own, the       *)
(* shared --engine-label (a flag that takes a value), and three arguments *)
(* before the machine name: enough to name the driver, set its flag, and  *)
(* give either one in every spelling the parser accepts.                  *)
EXTENDS CreateFlags

MCDrivers == {"virtualbox", "hyperv"}
MCDriverFlags == [d \in MCDrivers |->
                    IF d = "hyperv" THEN {"hyperv-virtual-switch"} ELSE {}]
MCSharedFlags == {"driver", "engine-label"}
MCWords == {"virtualbox", "hyperv", "ext"}
MCMaxFlags == 3
====
