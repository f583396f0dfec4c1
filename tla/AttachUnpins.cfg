SPECIFICATION Spec
CONSTANTS
  Ifs = {eth0, net1}
  NoIf = NoIf
  MapNames = {"config"}
  MaxTries = 4
  MaxAdds = 3
PROPERTY EarlierAddsSurvive
