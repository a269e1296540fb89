---------------------------- MODULE MCInterrupts ----------------------------
(***************************************************************************)
(* Two CPUs; the local APIC's error routine and the PIT at boot; then a    *)
(* device with MSI and two functions on one PCI line ask for the vectors   *)
(* that are left at the IRQL of the PIT.  One of them is in the routing    *)
(* table of its bridge, the other behind a second bridge, whose table the  *)
(* code looks for on the wrong bus; its pin is translated.  The retrieval  *)
(* from the first of two root complexes may fail unnoticed.                *)
(***************************************************************************)
EXTENDS Interrupts

MCComplexes == <<[first |-> 0, last |-> 0], [first |-> 1, last |-> 2]>>

MCHardware ==
    <<[loc |-> <<0, 1, 0>>, id |-> <<6, 4, 1, 1>>, secondary |-> 1, pin |-> 0, msi |-> FALSE],
      [loc |-> <<0, 2, 0>>, id |-> <<2, 0, 1, 2>>, secondary |-> 0, pin |-> 1, msi |-> TRUE],
      [loc |-> <<1, 0, 1>>, id |-> <<6, 4, 1, 2>>, secondary |-> 2, pin |-> 0, msi |-> FALSE],
      [loc |-> <<1, 2, 0>>, id |-> <<1, 1, 2, 1>>, secondary |-> 0, pin |-> 2, msi |-> FALSE],
      [loc |-> <<2, 0, 0>>, id |-> <<1, 6, 2, 2>>, secondary |-> 0, pin |-> 4, msi |-> FALSE]>>

MCIoApics == <<[base |-> 0, max |-> 2], [base |-> 16, max |-> 2]>>
MCOverrides == <<[src |-> 0, dst |-> 2], [src |-> 1, dst |-> 0]>>
MCPrt ==
    <<[root |-> 0, bridge |-> <<1, 0>>, dev |-> 2, fn |-> -1, pin |-> 2, line |-> 17],
      [root |-> 0, bridge |-> <<0, 1>>, dev |-> 0, fn |-> -1, pin |-> 4, line |-> 17]>>

Req(type, irq, dev, wire, q, exclusive, when, declines) ==
    [type |-> type, irq |-> irq, dev |-> dev, wire |-> wire, irql |-> q, exclusive |-> exclusive, when |-> when, declines |-> declines]

MCRequests ==
    [error |-> Req("lapic", 0, 0, 0, 3, TRUE, "lapic", TRUE),
     pit |-> Req("legacy", 0, 0, 2, 1, TRUE, "legacy", FALSE),
     nic |-> Req("pci", 0, 2, 0, 1, TRUE, "driver", FALSE),
     ide |-> Req("pci", 0, 4, 17, 1, FALSE, "driver", FALSE),
     sata |-> Req("pci", 0, 5, 17, 1, FALSE, "driver", FALSE)]

MCOrder == <<"error", "pit">>
MCPicSpurious == {<<2, 0>>}

\* A driver of an ISA device whose line has an override is loaded after the boot.
LateIsa == [MCRequests EXCEPT !.nic = Req("legacy", 1, 0, 0, 1, FALSE, "driver", FALSE)]
=============================================================================
