------------------------------ MODULE MCFileData ------------------------------
EXTENDS FileData

MCBuffers == {<<1>>, <<1, 2, 3>>}
=============================================================================
