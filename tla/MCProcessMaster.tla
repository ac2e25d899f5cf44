---- MODULE MCProcessMaster ----
EXTENDS ProcessMaster

MCStartups ==
  {<<"Manual", "Manual">>, <<"Once", "Manual">>, <<"Automatic", "Manual">>}
MCMaxTaken == <<1, 0>>
====
