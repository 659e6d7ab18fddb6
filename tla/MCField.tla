------------------------------ MODULE MCField ------------------------------
EXTENDS Field

MCAskedTiles == {Point(9, 26), Point(4, 15), Point(9, 13)}
MCOffsets == {Point(-40, 30)}
MCSappers == {{}, {"Red"}}
=============================================================================
