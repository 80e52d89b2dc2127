------------------------------ MODULE MCAta ------------------------------
EXTENDS Ata

Fill(a, b, c, d) ==
    [p \in Place |-> CASE p = <<0, 0>> -> a [] p = <<0, 1>> -> b
                       [] p = <<1, 0>> -> c [] p = <<1, 1>> -> d]

\* A disk alone, two disks on a bus, a slave with a CD drive after it and one
\* with a CD drive before it, and a bus with nothing to pull its lines down.
MCMachines == {Fill("ata", "absent", "absent", "absent"),
               Fill("ata", "ata", "absent", "absent"),
               Fill("absent", "ata", "atapi", "absent"),
               Fill("absent", "atapi", "absent", "ata"),
               Fill("ata", "absent", "floating", "floating")}
==========================================================================
