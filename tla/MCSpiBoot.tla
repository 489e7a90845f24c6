----------------------------- MODULE MCSpiBoot -----------------------------
EXTENDS SpiBoot

\* FIFO and pages are scaled together: the 256 bytes of the design's FIFO, and
\* of most flashes' pages, are 8 here.
Scale == 32
Page(bytes) == IF bytes < Scale THEN 1 ELSE bytes \div Scale

\* flash_type[]: man_code, mem_type and mem_size, and the size of a page.
MCFlashTypes ==
  << [id |-> <<32, 186, 25>>, page_size |-> Page(256)],    \* MT25QL256
     [id |-> <<32, 186, 24>>, page_size |-> Page(256)],    \* N25Q128
     [id |-> <<32, 187, 34>>, page_size |-> Page(256)],    \* MT25QU02GCBB
     [id |-> <<1, 2, 32>>, page_size |-> Page(512)],       \* S25FL512S
     [id |-> <<1, 32, 24>>, page_size |-> Page(512)],      \* S25FL128S
     [id |-> <<157, 112, 26>>, page_size |-> Page(16)] >>  \* IS25LP512M

\* Pages of less than the FIFO, as many bytes as it, and twice as many; and a
\* flash that is not listed.
MCIds == {<<157, 112, 26>>, <<32, 186, 25>>, <<1, 2, 32>>, <<157, 112, 25>>}
============================================================================
