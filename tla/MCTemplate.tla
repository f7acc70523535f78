------------------------------ MODULE MCTemplate ------------------------------
EXTENDS PageTableTemplate

Section(pages, flags, type, bootstrap) ==
  [pages |-> pages, flags |-> flags, type |-> type, bootstrap |-> bootstrap]

MCSections ==
  LET text == Section(RangeOf(242, 2), {"allocated", "executable"}, "ProgramSection", FALSE)
      data(p) == Section(p, {"allocated", "writable"}, "Uninitialized", FALSE)
      rodata == Section(RangeOf(244, 1), {"allocated"}, "ProgramSection", FALSE)
      other == Section(RangeOf(0, 1), {}, "StringTable", FALSE)
      boot == Section(RangeOf(2, 2), {"allocated", "executable"}, "ProgramSection", TRUE)
      wild == Section(RangeOf(200, 1), {"allocated"}, "ProgramSection", FALSE)
      both == Section(RangeOf(245, 1), {"allocated", "writable", "executable"}, "ProgramSection", FALSE)
  IN  {<< boot, text, rodata, data(RangeOf(245, 2)), other >>,
       << text, rodata, data(RangeOf(244, 2)) >>,
       << text, wild >>, << text, both >>, << text, Section(RangeOf(244, 0), {}, "Uninitialized", FALSE) >>}

\* The last machine has too little memory for the tables.
MCLayouts ==
  [memory : {<< RangeOf(0, 4), RangeOf(3, 28), RangeOf(31, 15) >>,
             << RangeOf(0, 3), RangeOf(4, 44) >>,
             << RangeOf(0, 47), RangeOf(52, 1) >>,
             << RangeOf(0, 4), RangeOf(4, 21) >>},
   sections : MCSections]

MCAddressBits ==
  [frame \in 0 .. 63 |-> {12 + i : i \in {j \in 0 .. 5 : (frame \div 2^j) % 2 = 1}}]

MCKernelImage == RangeOf(240, 11)
MCAllPages == 0 .. 255
MCNone == {{}}
MCNoFrames == << >>
==============================================================================
