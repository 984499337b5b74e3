--------------------------- MODULE MCCopyServices ---------------------------
EXTENDS CopyServices, TLC

MCVgSize == ("p" :> 6) @@ ("q" :> 1)
MCFirstLvs == {Lv("p", Name("LogicalDisk", "u"), 2, NULL), Lv("q", Name("StorageVolume", "v"), 1, NULL)}
=============================================================================
